---------------------------- MODULE Spec2Model ----------------------------
(***************************************************************************)
(* A model of the orchestration core of the Wordpress Inference Engine and *)
(* of two objects of its user interface:                                   *)
(*                                                                         *)
(*   - InferenceService  (inference/inference_service.go): Start, Stop,    *)
(*     SetProxyModel, SetBaseModel and the generation entry points;        *)
(*   - DelegatorService  (inference/delegator_service.go): the standard    *)
(*     proxy/base route executeGenerationWithFallback and the operations   *)
(*     GenerateWithCoT, GenerateWithReflection, GenerateStructuredOutput;  *)
(*   - ContextManager    (inference/context_manager.go): splitIntoChunks,  *)
(*     processInParallel, processSequentially and the calls that override  *)
(*     the strategy or the processing mode;                                *)
(*   - WordPressService  (wordpress/wordpress_service.go): Connect,        *)
(*     Disconnect, SaveSite and the site-change callback of main.go;       *)
(*   - LogRelay          (utils/log_relay.go): Start, Stop, Write and      *)
(*     processLogMessages.                                                 *)
(*                                                                         *)
(* Objects (LLM instances, MOA instances, delegators) live in heaps, which *)
(* are sequences indexed by object identity; 0 is the nil reference.       *)
(* A prompt or response of a generation call is modelled by what the code  *)
(* reads of it: a prompt by its length in bytes (estimateTokens reads      *)
(* nothing else), a response by the identity of the call that produced it, *)
(* with "" kept apart. The text a ContextManager splits is a sequence of   *)
(* characters.                                                             *)
(*                                                                         *)
(* Specifications:                                                         *)
(*   Spec          the service, its rebinds and GenerateText requests      *)
(*   SpecRoute     the standard route over every prompt length and outcome *)
(*   SpecStrategy  the service with every generation operation and MOA     *)
(*   SpecCM        one ContextManager.ProcessLargePrompt call, goroutines  *)
(*   SpecSplit     ContextManager.splitIntoChunks over bounded texts       *)
(*   SpecOverride  ContextManager calls that override strategy or mode     *)
(*   SpecConcurrent  two such calls on one ContextManager at the same time *)
(*   SpecRestart   the service started, stopped and started again          *)
(*   SpecWP        WordPressService with the site-change callback          *)
(*   SpecLR        one LogRelay used by concurrent goroutines              *)
(***************************************************************************)
EXTENDS Integers, Sequences, FiniteSets, TLC

\* ------------------------------------------------------------------ bounds

\* LLM instances constructed over one behaviour of Spec.
MaxBackends == 3

\* Concurrent GenerateText requests in Spec.
NumRequests == 1

\* Chunks of one ProcessLargePrompt call in SpecCM.
MaxChunks == 3

\* Bytes of the text handed to splitIntoChunks in SpecSplit.
MaxTextLen == 6

\* LLM instances constructed over one behaviour of SpecRestart: two Start
\* calls that succeed.
MaxRestartBackends == 4

\* Goroutines that call Start, Stop and log.Println on one LogRelay in
\* SpecLR.
NumLogGoroutines == 2

\* Messages the channel of the LogRelay holds in SpecLR (200 in the code).
LogChannelCapacity == 2

\* Goroutines that make a call with an override on one ContextManager in
\* SpecConcurrent.
NumOverrideCallers == 2

\* --------------------------------------------------------------- constants

Nil == 0

NoText == 0

\* NewInferenceService: the default model names.
DefaultProxyModel == "llama-4-scout-17b-16e-instruct"

DefaultBaseModel == "gemini-2.0-flash"

\* The model of an LLM built from options that carry no SetModel option
\* (SetProxyModel and SetBaseModel pass the API key only).
UnsetModel == "<unset>"

\* Model names a caller passes to SetProxyModel / SetBaseModel.
ModelNames == {DefaultProxyModel, DefaultBaseModel}

\* NewDelegatorService: proxyTokenLimit.
ProxyTokenLimit == 8000

\* The kinds of error a backend call ends in (every backend error is of
\* exactly one kind); "nil" is the nil error.
ErrorKinds == {"Transient", "ContextOverflow", "Auth", "Permanent", "Cancelled"}

NilErr == "nil"

Outcomes == ErrorKinds \cup {NilErr}

\* Prompt lengths in bytes: estimates of 7488, 8000 and 8001 tokens.
PromptLens == {22464, 24002, 24003}

\* The outcomes of gollm.NewLLM followed by the llm.LLM type assertion:
\* "error" stands for both failures (NewLLM returned an error, or the
\* instance is no llm.LLM), which every caller handles with the same
\* assignments.
LLMOutcomes == {"ok", "error"}

\* The outcomes of gollm.NewMOA.
MOAOutcomes == {"ok", "error"}

Requests == 1..NumRequests

\* ----------------------------------------------------------------- state

VARIABLES
    \* InferenceService fields
    isRunning, proxyLLM, baseLLM, moa, delegator, proxyModel, baseModel,
    \* heaps
    backends, moas, delegators,
    \* the holder of s.mutex (nil: free), what the last SetProxyModel or
    \* SetBaseModel call returned, and whether it was given the model that
    \* was already bound (history)
    mutex, rebindReturn, rebindNoOp,
    \* generation requests: position and locals; the calls issued
    req, calls,
    \* history: what each request saw when it captured its delegator, and the
    \* backends replaced in the proxy slot by successful SetProxyModel calls
    captured, retired,
    \* ContextManager.ProcessLargePrompt: the call, its goroutines, the
    \* generator calls issued, and the order in which they returned
    cm, resultsArray, lastError, chunkPc, seq, cmCalls, completion,
    \* ContextManager fields read by splitIntoChunks; the text it was given
    \* and the chunks it returned
    strategy, maxChunkSize, chunkOverlap, largePrompt, chunks, splitPc,
    \* ContextManager.processingMode, and the locals of a
    \* ProcessLargePromptWithStrategy or ProcessLargePromptWithMode call with
    \* the configuration the call found (history)
    processingMode, override,
    \* WordPressService: its fields, the holder of its mutex, and the call in
    \* progress with its locals and the callback it runs
    wp, wpMutex, wpCall,
    \* LogRelay: its fields, the standard logger, the goroutines that call
    \* Start, Stop and log.Println, and the panic that ended the program
    lr, logger, lrG, lrPanic,
    \* the calls with an override that goroutines make on one ContextManager
    \* at the same time
    ovCall

svcVars == <<isRunning, proxyLLM, baseLLM, moa, delegator, proxyModel, baseModel,
             backends, moas, delegators, retired, rebindReturn, rebindNoOp>>

reqVars == <<req, calls, captured, mutex>>

wpVars == <<wp, wpMutex, wpCall>>

lrVars == <<lr, logger, lrG, lrPanic>>

contextVars == <<strategy, maxChunkSize, chunkOverlap, largePrompt, chunks, splitPc,
                 processingMode, override>>

\* The fields of a ContextManager with the state outside the inference
\* service.
splitVars == <<contextVars, wpVars, lrVars, ovCall>>

\* The state of the inference package: the service, its requests, and the
\* ContextManager with its calls.
inferenceVars ==
    <<svcVars, reqVars, cm, resultsArray, lastError, chunkPc, seq, cmCalls, completion,
      contextVars>>

cmVars == <<cm, resultsArray, lastError, chunkPc, seq, cmCalls, completion, splitVars>>

vars == <<svcVars, reqVars, cmVars>>

\* ------------------------------------------------------------------ errors

\* An error value: the kind of the error its %w chain wraps, the kinds its
\* message reports, in order, and the chunk it names (0: none).
Err(wraps, mentions, chunk) == [wraps |-> wraps, mentions |-> mentions, chunk |-> chunk]

NoErr == Err(NilErr, <<>>, 0)

\* errors.New("inference service is not running or delegator not configured")
NotRunningErr == Err("NotRunning", <<>>, 0)

\* fmt.Errorf("prompt resulted in zero chunks")
ZeroChunksErr == Err("ZeroChunks", <<>>, 0)


\* ------------------------------------------------------- DelegatorService

\* estimateTokens(text) = len(text) / 3, on the length of the text.
estimateTokens(textLen) == textLen \div 3

\* NewDelegatorService: nil (the empty sequence) when either LLM is nil, else
\* a new delegator (a one-element sequence) holding the two LLM instances,
\* the MOA instance and the proxy token limit.
NewDelegatorService(primaryLLM, secondaryLLM, moaInstance) ==
    IF primaryLLM = Nil \/ secondaryLLM = Nil
    THEN <<>>
    ELSE <<[proxyLLM |-> primaryLLM, baseLLM |-> secondaryLLM,
            moa |-> moaInstance, proxyTokenLimit |-> ProxyTokenLimit]>>

\* shouldFallbackOnError: false on a nil error; true on an error that carries
\* "context_length_exceeded"; true on every other error (the default).
shouldFallbackOnError(err) ==
    IF err = NilErr THEN FALSE
    ELSE IF err = "ContextOverflow" THEN TRUE
    ELSE TRUE

\* The initial delegation logic: the proxy unless the estimate exceeds the
\* delegator's proxyTokenLimit.
usePrimaryInitially(d, promptLen) ==
    ~(estimateTokens(promptLen) > d.proxyTokenLimit)

\* A call issued by a request: the pool (slot of the delegator) the callee
\* was read from, or "moa"; the LLM or MOA instance called; how the call
\* ended ("pending" while it is in flight) and the text it returned; and the
\* generation step of the operation it belongs to.
Call(pool, backend) ==
    [pool |-> pool, backend |-> backend, outcome |-> "pending", response |-> NoText,
     step |-> 1]

\* Attempt 1: initialTargetLLM.Generate, on d.proxyLLM or d.baseLLM.
InitialTarget(d, promptLen) ==
    IF usePrimaryInitially(d, promptLen)
    THEN Call("proxy", d.proxyLLM)
    ELSE Call("base", d.baseLLM)

FallbackTargetProxy(d) == Call("proxy", d.proxyLLM)

\* The fallback attempt: d.baseLLM.Generate.
FallbackTarget(d) == Call("base", d.baseLLM)

\* The non-empty text of a successful Generate call on LLM instance b.
ResponseOf(b) == b

\* The non-empty text of a successful Generate call on MOA instance m.
MoaResponseOf(m) == 0 - m

\* What a Generate call returns with outcome err: nothing with an error, and
\* with a nil error the generated text, which a provider may leave empty.
GeneratedText(err, empty, text) == IF err = NilErr /\ ~empty THEN text ELSE NoText

\* What executeGenerationWithFallback returns without a fallback attempt:
\* the response, or "" and the wrapped error of the attempt.
DirectResult(response, err) ==
    IF err # NilErr
    THEN [text |-> NoText, error |-> Err(err, <<err>>, 0)]
    ELSE [text |-> response, error |-> NoErr]

FallbackResultFirstResponse(response, err, fallbackResponse, fallbackErr) ==
    IF fallbackErr # NilErr
    THEN [text |-> NoText, error |-> Err(err, <<err, fallbackErr>>, 0)]
    ELSE [text |-> response, error |-> NoErr]

\* What executeGenerationWithFallback returns after the fallback attempt: ""
\* and an error that wraps the first error (%w) and reports the fallback
\* error (%v), or the fallback response.
FallbackResult(response, err, fallbackResponse, fallbackErr) ==
    IF fallbackErr # NilErr
    THEN [text |-> NoText, error |-> Err(err, <<err, fallbackErr>>, 0)]
    ELSE [text |-> fallbackResponse, error |-> NoErr]

SetOutcome(cs, outcome, response) ==
    [cs EXCEPT ![Len(cs)].outcome = outcome, ![Len(cs)].response = response]

AtStep(c, step) == [c EXCEPT !.step = step]

\* The bytes GenerateWithCoT and GenerateStructuredOutput add to the prompt.
CoTOverhead == 71

StructuredOverhead == 184

IdleReq == [pc |-> "idle", op |-> "none", step |-> 0, d |-> Nil, moaInst |-> Nil,
            promptLen |-> 0, stepPromptLen |-> 0, initialResponse |-> NoText,
            reflectionPrompt |-> <<>>,
            response |-> NoText, err |-> NilErr, text |-> NoText, error |-> NoErr]

NoCapture == [proxy |-> Nil, base |-> Nil, moa |-> Nil, moaCfg |-> <<>>, retired |-> {},
              models |-> <<>>]

MutexHeldDuringCall(r) == r

\* s.mutex.Unlock() after the capture: the mutex is free when the entry
\* point goes on to call the delegator or the MOA instance.
MutexAfterCapture(r) == Nil

\* return text, err
Finish(q, text, error) == [q EXCEPT !.pc = "done", !.text = text, !.error = error]

CaptureWithoutRunningCheck(r, op, promptLen) ==
    /\ req[r].pc = "idle"
    /\ \A q \in Requests : q < r => req[q].pc # "idle"
    /\ mutex = Nil
    /\ IF delegator = Nil
       THEN /\ req' = [req EXCEPT ![r] =
                           Finish([@ EXCEPT !.op = op, !.promptLen = promptLen],
                                  NoText, NotRunningErr)]
            /\ UNCHANGED <<captured, mutex>>
       ELSE /\ req' = [req EXCEPT ![r].pc = "captured", ![r].op = op, ![r].step = 1,
                                  ![r].promptLen = promptLen,
                                  ![r].stepPromptLen = promptLen,
                                  ![r].d = delegator]
            /\ captured' = [captured EXCEPT ![r] =
                   [proxy |-> delegators[delegator].proxyLLM,
                    base |-> delegators[delegator].baseLLM,
                    moa |-> delegators[delegator].moa,
                    moaCfg |-> IF delegators[delegator].moa = Nil THEN <<>>
                               ELSE <<moas[delegators[delegator].moa]>>,
                    retired |-> retired,
                    models |-> <<proxyModel, baseModel>>]]
            /\ mutex' = MutexAfterCapture(r)
    /\ UNCHANGED <<svcVars, calls, cmVars>>

\* The four entry points that delegate to the DelegatorService, under
\* s.mutex: fail when the service is not running or has no delegator, else
\* capture the delegator and unlock. Requests are interchangeable, so they are
\* numbered in the order in which they start.
Capture(r, op, promptLen) ==
    /\ req[r].pc = "idle"
    /\ \A q \in Requests : q < r => req[q].pc # "idle"
    /\ mutex = Nil
    /\ IF ~isRunning \/ delegator = Nil
       THEN /\ req' = [req EXCEPT ![r] =
                           Finish([@ EXCEPT !.op = op, !.promptLen = promptLen],
                                  NoText, NotRunningErr)]
            /\ UNCHANGED <<captured, mutex>>
       ELSE /\ req' = [req EXCEPT ![r].pc = "captured", ![r].op = op, ![r].step = 1,
                                  ![r].promptLen = promptLen,
                                  ![r].stepPromptLen = promptLen,
                                  ![r].d = delegator]
            /\ captured' = [captured EXCEPT ![r] =
                   [proxy |-> delegators[delegator].proxyLLM,
                    base |-> delegators[delegator].baseLLM,
                    moa |-> delegators[delegator].moa,
                    moaCfg |-> IF delegators[delegator].moa = Nil THEN <<>>
                               ELSE <<moas[delegators[delegator].moa]>>,
                    retired |-> retired,
                    models |-> <<proxyModel, baseModel>>]]
            /\ mutex' = MutexAfterCapture(r)
    /\ UNCHANGED <<svcVars, calls, cmVars>>

GenerateText(r, promptLen) == Capture(r, "Simple", promptLen)

GenerateTextWithCoT(r, promptLen) == Capture(r, "CoT", promptLen)

GenerateTextWithReflection(r, promptLen) == Capture(r, "Reflection", promptLen)

GenerateStructuredOutput(r, promptLen) == Capture(r, "Structured", promptLen)

\* InferenceService.GenerateTextWithMOA, under s.mutex: fail when the service
\* is not running or has no MOA instance, else capture s.moa and unlock.
GenerateTextWithMOA(r, promptLen) ==
    /\ req[r].pc = "idle"
    /\ \A q \in Requests : q < r => req[q].pc # "idle"
    /\ mutex = Nil
    /\ IF ~isRunning
       THEN /\ req' = [req EXCEPT ![r] =
                           Finish([@ EXCEPT !.op = "MOA", !.promptLen = promptLen],
                                  NoText, NotRunningErr)]
            /\ UNCHANGED <<captured, mutex>>
       ELSE IF moa = Nil
       THEN /\ req' = [req EXCEPT ![r] =
                           Finish([@ EXCEPT !.op = "MOA", !.promptLen = promptLen],
                                  NoText, Err("MOANotConfigured", <<>>, 0))]
            /\ UNCHANGED <<captured, mutex>>
       ELSE /\ req' = [req EXCEPT ![r].pc = "captured", ![r].op = "MOA", ![r].step = 1,
                                  ![r].promptLen = promptLen,
                                  ![r].stepPromptLen = promptLen,
                                  ![r].moaInst = moa]
            /\ captured' = [captured EXCEPT ![r] =
                   [NoCapture EXCEPT !.moa = moa, !.moaCfg = <<moas[moa]>>,
                                     !.retired = retired,
                                     !.models = <<proxyModel, baseModel>>]]
            /\ mutex' = MutexAfterCapture(r)
    /\ UNCHANGED <<svcVars, calls, cmVars>>

StepEndContinueOnError(q, res) ==
    IF q.op = "Reflection" /\ q.step = 1
    THEN [q EXCEPT !.pc = "step2", !.step = 2, !.initialResponse = res.text]
    ELSE IF res.error # NoErr THEN Finish(q, NoText, res.error)
    ELSE Finish(q, res.text, NoErr)

\* What an operation does with the text and error of one generation step:
\* an error ends it with "" and the error; GenerateWithReflection goes from a
\* successful first step to its second step; every other success is returned.
StepEnd(q, res) ==
    IF res.error # NoErr THEN Finish(q, NoText, res.error)
    ELSE IF q.op = "Reflection" /\ q.step = 1
    THEN [q EXCEPT !.pc = "step2", !.step = 2, !.initialResponse = res.text]
    ELSE Finish(q, res.text, NoErr)

\* The lengths the prompt of the current step can have: the prompt with the
\* bytes the operation adds; the reflection prompt embeds the original prompt
\* and the initial response, and is no shorter than the original.
StepPromptLens(q) ==
    CASE q.op = "CoT" -> {q.promptLen + CoTOverhead}
      [] q.op = "Structured" -> {q.promptLen + StructuredOverhead}
      [] q.op = "Reflection" /\ q.step = 2 -> {l \in PromptLens : l >= q.promptLen}
      [] OTHER -> {q.promptLen}

\* The reflection prompt of GenerateWithReflection: the text that Sprintf
\* builds around the original prompt and the initial response, kept as the
\* pair of its two arguments.
ReflectionPrompt(q) ==
    IF q.op = "Reflection" /\ q.step = 2
    THEN <<q.promptLen, q.initialResponse>>
    ELSE <<>>

\* The MOA instance an operation prefers: the one the entry point captured
\* (GenerateTextWithMOA) or the one of the captured delegator.
MoaOf(q) == IF q.op = "MOA" THEN q.moaInst ELSE delegators[q.d].moa

\* The start of a generation step of GenerateWithCoT, GenerateWithReflection,
\* GenerateStructuredOutput or GenerateTextWithMOA: the prompt of the step is
\* built, and moa.Generate is called when the MOA instance is not nil; with
\* no MOA instance the step goes to the standard route.
MoaGenerate(r) ==
    /\ req[r].pc \in {"captured", "step2"}
    /\ req[r].op # "Simple"
    /\ \E len \in StepPromptLens(req[r]) :
           IF MoaOf(req[r]) # Nil
           THEN /\ req' = [req EXCEPT ![r].pc = "moa", ![r].stepPromptLen = len,
                                      ![r].reflectionPrompt = ReflectionPrompt(req[r])]
                /\ calls' = [calls EXCEPT ![r] =
                                 Append(@, AtStep(Call("moa", MoaOf(req[r])), req[r].step))]
           ELSE /\ req' = [req EXCEPT ![r].pc = "route", ![r].stepPromptLen = len,
                                      ![r].reflectionPrompt = ReflectionPrompt(req[r])]
                /\ UNCHANGED calls
    /\ UNCHANGED <<svcVars, captured, mutex, cmVars>>

\* What each operation does when moa.Generate returns. GenerateTextWithMOA
\* returns the response or the wrapped error. GenerateWithCoT returns the
\* response when the error is nil and otherwise falls through to the standard
\* route. GenerateWithReflection and GenerateStructuredOutput go to the
\* standard route when the response is "", and otherwise end the step with
\* the response and the error of the MOA call.
AfterMoa(q, response, err) ==
    CASE q.op = "MOA" ->
             IF err # NilErr THEN Finish(q, NoText, Err(err, <<err>>, 0))
             ELSE Finish(q, response, NoErr)
      [] q.op = "CoT" ->
             IF err # NilErr THEN [q EXCEPT !.pc = "route"]
             ELSE Finish(q, response, NoErr)
      [] OTHER ->
             IF response = NoText THEN [q EXCEPT !.pc = "route"]
             ELSE StepEnd(q, [text |-> response,
                              error |-> IF err = NilErr THEN NoErr
                                        ELSE Err(err, <<err>>, 0)])

\* moa.Generate returns.
MoaReturn(r, outcome, empty) ==
    /\ req[r].pc = "moa"
    /\ LET last == calls[r][Len(calls[r])]
           response == GeneratedText(outcome, empty, MoaResponseOf(last.backend))
       IN /\ req' = [req EXCEPT ![r] = AfterMoa(@, response, outcome)]
          /\ calls' = [calls EXCEPT ![r] = SetOutcome(@, outcome, response)]
    /\ UNCHANGED <<svcVars, captured, mutex, cmVars>>

\* executeGenerationWithFallback, up to the first Generate call: the
\* configuration check, the estimate, the initial delegation. GenerateSimple
\* gets here straight from the entry point, the other operations when the
\* step goes to the standard route.
Attempt1(r) ==
    /\ \/ req[r].pc = "captured" /\ req[r].op = "Simple"
       \/ req[r].pc = "route"
    /\ LET d == delegators[req[r].d] IN
       IF d.proxyLLM = Nil \/ d.baseLLM = Nil
       THEN /\ req' = [req EXCEPT ![r] = Finish(@, NoText, Err("NotConfigured", <<>>, 0))]
            /\ UNCHANGED calls
       ELSE /\ req' = [req EXCEPT ![r].pc = "attempt1"]
            /\ calls' = [calls EXCEPT ![r] =
                   Append(@, AtStep(InitialTarget(d, req[r].stepPromptLen), req[r].step))]
    /\ UNCHANGED <<svcVars, captured, mutex, cmVars>>

\* The first Generate call returns; the fallback logic: a failed attempt on
\* the proxy that shouldFallbackOnError accepts is followed by a Generate call
\* on the delegator's base LLM, any other outcome ends the step.
Attempt1Return(r, outcome, empty) ==
    /\ req[r].pc = "attempt1"
    /\ LET d == delegators[req[r].d]
           first == calls[r][Len(calls[r])]
           response == GeneratedText(outcome, empty, ResponseOf(first.backend))
           res == DirectResult(response, outcome)
       IN IF first.pool = "proxy" /\ outcome # NilErr /\ shouldFallbackOnError(outcome)
          THEN /\ req' = [req EXCEPT ![r].pc = "fallback", ![r].err = outcome,
                                     ![r].response = response]
               /\ calls' = [calls EXCEPT ![r] =
                                Append(SetOutcome(@, outcome, response),
                                       AtStep(FallbackTarget(d), req[r].step))]
          ELSE /\ req' = [req EXCEPT ![r] =
                              StepEnd([@ EXCEPT !.err = outcome, !.response = response],
                                      res)]
               /\ calls' = [calls EXCEPT ![r] = SetOutcome(@, outcome, response)]
    /\ UNCHANGED <<svcVars, captured, mutex, cmVars>>

FallbackReturnRetry(r, outcome, empty) ==
    /\ req[r].pc = "fallback"
    /\ Len(calls[r]) < 4
    /\ calls' = [calls EXCEPT ![r] =
                     Append(SetOutcome(@, outcome, NoText),
                            FallbackTarget(delegators[req[r].d]))]
    /\ UNCHANGED <<svcVars, req, captured, mutex, cmVars>>

\* The fallback Generate call returns and executeGenerationWithFallback
\* returns its result, which ends the step.
FallbackReturn(r, outcome, empty) ==
    /\ req[r].pc = "fallback"
    /\ LET last == calls[r][Len(calls[r])]
           fallbackResponse == GeneratedText(outcome, empty, ResponseOf(last.backend))
           res == FallbackResult(req[r].response, req[r].err, fallbackResponse, outcome)
       IN /\ req' = [req EXCEPT ![r] = StepEnd(@, res)]
          /\ calls' = [calls EXCEPT ![r] = SetOutcome(@, outcome, fallbackResponse)]
    /\ UNCHANGED <<svcVars, captured, mutex, cmVars>>


\* ------------------------------------------------------- InferenceService

\* gollm.NewLLM(opts...): a new LLM instance for the model its options name.
NewLLM(model) == [model |-> model]

\* gollm.NewMOA(moaCfg, aggregatorOpts...): a new MOA instance over the agent
\* models and the aggregator model its options name.
NewMOA(proxyOptsModel, baseOptsModel, aggregatorModel) ==
    [agents |-> <<proxyOptsModel, baseOptsModel>>, aggregator |-> aggregatorModel]

\* s.moa = the new MOA instance, or nil when gollm.NewMOA failed.
InstallMOA(moaOut, m) ==
    IF moaOut = "ok"
    THEN /\ moas' = Append(moas, m)
         /\ moa' = Len(moas) + 1
    ELSE /\ moa' = Nil
         /\ UNCHANGED moas

InstallDelegatorInPlace(nd) ==
    IF nd = <<>>
    THEN /\ delegator' = Nil
         /\ UNCHANGED delegators
    ELSE IF delegator # Nil
         THEN /\ delegators' = [delegators EXCEPT ![delegator] = nd[1]]
              /\ UNCHANGED delegator
         ELSE /\ delegators' = Append(delegators, nd[1])
              /\ delegator' = Len(delegators) + 1

\* s.delegator = NewDelegatorService(...): the service points at the new
\* delegator object (or at nil); no existing delegator is written.
InstallDelegator(nd) ==
    IF nd = <<>>
    THEN /\ delegator' = Nil
         /\ UNCHANGED delegators
    ELSE /\ delegators' = Append(delegators, nd[1])
         /\ delegator' = Len(delegators) + 1

\* InferenceService.Start, under s.mutex, in a behaviour that holds at most
\* maxBackends LLM instances. An LLM instance that no field refers to when
\* Start returns is not added to the heap.
StartWithin(maxBackends, proxyOut, baseOut, moaOut) ==
    /\ mutex = Nil
    /\ IF proxyOut # "ok"
       THEN \* return err: nothing assigned yet
            UNCHANGED svcVars
       ELSE IF baseOut # "ok"
       THEN \* s.proxyLLM = nil; return err
            /\ proxyLLM' = Nil
            /\ UNCHANGED <<isRunning, baseLLM, moa, delegator, proxyModel, baseModel,
                           backends, moas, delegators, retired, rebindReturn,
                           rebindNoOp>>
       ELSE /\ Len(backends) + 2 <= maxBackends
            /\ backends' = backends \o <<NewLLM(proxyModel), NewLLM(baseModel)>>
            /\ proxyLLM' = Len(backends) + 1
            /\ baseLLM' = Len(backends) + 2
            /\ InstallMOA(moaOut, NewMOA(proxyModel, baseModel, baseModel))
            /\ InstallDelegator(NewDelegatorService(proxyLLM', baseLLM', moa'))
            /\ isRunning' = TRUE
            /\ UNCHANGED <<proxyModel, baseModel, retired, rebindReturn, rebindNoOp>>
    /\ UNCHANGED <<reqVars, cmVars>>

Start(proxyOut, baseOut, moaOut) == StartWithin(MaxBackends, proxyOut, baseOut, moaOut)

\* InferenceService.Stop, under s.mutex.
Stop ==
    /\ mutex = Nil
    /\ IF ~isRunning
       THEN UNCHANGED svcVars
       ELSE /\ isRunning' = FALSE
            /\ proxyLLM' = Nil
            /\ baseLLM' = Nil
            /\ moa' = Nil
            /\ delegator' = Nil
            /\ proxyModel' = ""
            /\ baseModel' = ""
            /\ UNCHANGED <<backends, moas, delegators, retired, rebindReturn,
                           rebindNoOp>>
    /\ UNCHANGED <<reqVars, cmVars>>

\* The LLM instances a request could reach through the proxy slot: the
\* service's proxyLLM and the proxyLLM of its delegator.
BoundProxy ==
    ({proxyLLM} \cup (IF delegator = Nil THEN {} ELSE {delegators[delegator].proxyLLM}))
        \ {Nil}

\* What SetProxyModel and SetBaseModel return: nil for the current model
\* name and after a rebind, an error when the LLM could not be built.
RebindResult(current, model, llmOut) ==
    IF model = current THEN NilErr
    ELSE IF llmOut # "ok" THEN "error"
    ELSE NilErr

SetProxyModelAlwaysRebuilds(model, llmOut, moaOut) ==
    /\ mutex = Nil
    /\ rebindReturn' = IF llmOut # "ok" THEN "error" ELSE NilErr
    /\ rebindNoOp' = IF model = proxyModel THEN "SetProxyModel" ELSE "none"
    /\ IF llmOut # "ok"
       THEN UNCHANGED <<isRunning, proxyLLM, baseLLM, moa, delegator, proxyModel,
                        baseModel, backends, moas, delegators, retired>>
       ELSE /\ Len(backends) + 1 <= MaxBackends
            /\ backends' = Append(backends, NewLLM(UnsetModel))
            /\ proxyLLM' = Len(backends) + 1
            /\ proxyModel' = model
            /\ InstallMOA(moaOut, NewMOA(UnsetModel, UnsetModel, UnsetModel))
            /\ InstallDelegator(NewDelegatorService(proxyLLM', baseLLM, moa'))
            /\ retired' = retired \cup BoundProxy
            /\ UNCHANGED <<isRunning, baseLLM, baseModel>>
    /\ UNCHANGED <<reqVars, cmVars>>

SetProxyModelStale(model, llmOut, moaOut) ==
    /\ mutex = Nil
    /\ rebindReturn' = RebindResult(proxyModel, model, llmOut)
    /\ rebindNoOp' = IF model = proxyModel THEN "SetProxyModel" ELSE "none"
    /\ IF model = proxyModel \/ llmOut # "ok"
       THEN UNCHANGED <<isRunning, proxyLLM, baseLLM, moa, delegator, proxyModel,
                        baseModel, backends, moas, delegators, retired>>
       ELSE /\ Len(backends) + 1 <= MaxBackends
            /\ backends' = Append(backends, NewLLM(UnsetModel))
            /\ proxyLLM' = Len(backends) + 1
            /\ proxyModel' = model
            /\ InstallMOA(moaOut, NewMOA(UnsetModel, UnsetModel, UnsetModel))
            /\ retired' = retired \cup BoundProxy
            /\ UNCHANGED <<isRunning, baseLLM, baseModel, delegator, delegators>>
    /\ UNCHANGED <<reqVars, cmVars>>

\* InferenceService.SetProxyModel, under s.mutex: a no-op for the current
\* model name; unchanged state and an error when the LLM cannot be built;
\* otherwise a new proxy LLM (built from options that carry the API key
\* only), a new MOA instance or nil, and a new delegator over s.proxyLLM,
\* s.baseLLM, s.moa.
SetProxyModel(model, llmOut, moaOut) ==
    /\ mutex = Nil
    /\ rebindReturn' = RebindResult(proxyModel, model, llmOut)
    /\ rebindNoOp' = IF model = proxyModel THEN "SetProxyModel" ELSE "none"
    /\ IF model = proxyModel \/ llmOut # "ok"
       THEN UNCHANGED <<isRunning, proxyLLM, baseLLM, moa, delegator, proxyModel,
                        baseModel, backends, moas, delegators, retired>>
       ELSE /\ Len(backends) + 1 <= MaxBackends
            /\ backends' = Append(backends, NewLLM(UnsetModel))
            /\ proxyLLM' = Len(backends) + 1
            /\ proxyModel' = model
            /\ InstallMOA(moaOut, NewMOA(UnsetModel, UnsetModel, UnsetModel))
            /\ InstallDelegator(NewDelegatorService(proxyLLM', baseLLM, moa'))
            /\ retired' = retired \cup BoundProxy
            /\ UNCHANGED <<isRunning, baseLLM, baseModel>>
    /\ UNCHANGED <<reqVars, cmVars>>

SetBaseModelClearOnError(model, llmOut, moaOut) ==
    /\ mutex = Nil
    /\ rebindReturn' = RebindResult(baseModel, model, llmOut)
    /\ rebindNoOp' = IF model = baseModel THEN "SetBaseModel" ELSE "none"
    /\ IF model = baseModel
       THEN UNCHANGED <<isRunning, proxyLLM, baseLLM, moa, delegator, proxyModel,
                        baseModel, backends, moas, delegators, retired>>
       ELSE IF llmOut # "ok"
       THEN /\ baseLLM' = Nil
            /\ UNCHANGED <<isRunning, proxyLLM, moa, delegator, proxyModel, baseModel,
                           backends, moas, delegators, retired>>
       ELSE /\ Len(backends) + 1 <= MaxBackends
            /\ backends' = Append(backends, NewLLM(UnsetModel))
            /\ baseLLM' = Len(backends) + 1
            /\ baseModel' = model
            /\ InstallMOA(moaOut, NewMOA(UnsetModel, UnsetModel, UnsetModel))
            /\ InstallDelegator(NewDelegatorService(proxyLLM, baseLLM', moa'))
            /\ UNCHANGED <<isRunning, proxyLLM, proxyModel, retired>>
    /\ UNCHANGED <<reqVars, cmVars>>

\* InferenceService.SetBaseModel, under s.mutex: as SetProxyModel, on the
\* base slot.
SetBaseModel(model, llmOut, moaOut) ==
    /\ mutex = Nil
    /\ rebindReturn' = RebindResult(baseModel, model, llmOut)
    /\ rebindNoOp' = IF model = baseModel THEN "SetBaseModel" ELSE "none"
    /\ IF model = baseModel \/ llmOut # "ok"
       THEN UNCHANGED <<isRunning, proxyLLM, baseLLM, moa, delegator, proxyModel,
                        baseModel, backends, moas, delegators, retired>>
       ELSE /\ Len(backends) + 1 <= MaxBackends
            /\ backends' = Append(backends, NewLLM(UnsetModel))
            /\ baseLLM' = Len(backends) + 1
            /\ baseModel' = model
            /\ InstallMOA(moaOut, NewMOA(UnsetModel, UnsetModel, UnsetModel))
            /\ InstallDelegator(NewDelegatorService(proxyLLM, baseLLM', moa'))
            /\ UNCHANGED <<isRunning, proxyLLM, proxyModel, retired>>
    /\ UNCHANGED <<reqVars, cmVars>>


\* --------------------------------------------------------- ContextManager

Chunks == 1..MaxChunks

\* The pieces of the texts ContextManager builds and returns: the generator's
\* response to the prompt of chunk c, fmt.Sprintf("[ERROR PROCESSING CHUNK
\* %d]", c), the zero value "" of a slot of resultsArray, and the separator
\* "\n\n---\n\n" strings.Join puts between two entries.
ResultText(c) == [kind |-> "result", chunk |-> c]

Placeholder(c) == [kind |-> "placeholder", chunk |-> c]

EmptyText == [kind |-> "empty", chunk |-> 0]

Separator == [kind |-> "separator", chunk |-> 0]

RECURSIVE JoinSeparatorAfterEach(_, _)
JoinSeparatorAfterEach(elems, sep) ==
    IF Len(elems) = 0 THEN <<>>
    ELSE <<elems[1], sep>> \o JoinSeparatorAfterEach(Tail(elems), sep)

\* strings.Join(elems, sep): the entries in order, sep between neighbours.
RECURSIVE Join(_, _)
Join(elems, sep) ==
    IF Len(elems) = 0 THEN <<>>
    ELSE IF Len(elems) = 1 THEN <<elems[1]>>
    ELSE <<elems[1], sep>> \o Join(Tail(elems), sep)

\* The prompt processInParallel builds for a chunk: the instruction and the
\* chunk text, no summary.
ParallelPrompt(index) == [chunk |-> index, summaryOf |-> 0]

SequentialPromptNoSummary(i, previousOutputSummary) == [chunk |-> i, summaryOf |-> 0]

\* The prompt processSequentially builds: no summary for the first chunk,
\* else the summary of the previous output.
SequentialPrompt(i, previousOutputSummary) ==
    IF i = 1
    THEN [chunk |-> i, summaryOf |-> 0]
    ELSE [chunk |-> i, summaryOf |-> previousOutputSummary]

\* summarizeForContext(result): a function of its argument alone (the last
\* sentences of that text), named by the chunk whose response it was taken
\* from.
summarizeForContext(result) == result.chunk

\* llm.GenerateText(chunkPrompt) when it succeeds: the response to that prompt.
GenerateTextOf(chunkPrompt) == ResultText(chunkPrompt.chunk)

\* fmt.Errorf("error processing chunk %d: %w", index+1, err)
ChunkErr(index, err) == Err(err, <<err>>, index)

IdleCM == [pc |-> "idle", mode |-> "none", n |-> 0, text |-> <<>>, error |-> NoErr]

IdleSeq == [i |-> 0, results |-> <<>>, previousOutputSummary |-> 0, calling |-> FALSE]

ProcessLargePromptNoZeroCheck(n, mode) ==
    /\ cm.pc = "idle"
    /\ IF mode = "sequential"
       THEN /\ cm' = [cm EXCEPT !.pc = "sequential", !.mode = mode, !.n = n]
            /\ seq' = [IdleSeq EXCEPT !.i = 1]
            /\ UNCHANGED <<resultsArray, chunkPc>>
       ELSE /\ cm' = [cm EXCEPT !.pc = "parallel", !.mode = mode, !.n = n]
            /\ resultsArray' = [i \in 1..n |-> EmptyText]
            /\ chunkPc' = [i \in Chunks |-> IF i <= n THEN "started" ELSE "none"]
            /\ UNCHANGED seq
    /\ UNCHANGED <<svcVars, reqVars, splitVars, lastError, cmCalls, completion>>

\* ProcessLargePrompt with a non-nil TextGenerator on a prompt that splits
\* into n chunks: the zero-chunk error, or the start of processSequentially,
\* or processInParallel up to wg.Wait (resultsArray made, one goroutine
\* started per chunk).
ProcessLargePrompt(n, mode) ==
    /\ cm.pc = "idle"
    /\ IF n = 0
       THEN /\ cm' = [cm EXCEPT !.pc = "returned", !.mode = mode, !.error = ZeroChunksErr]
            /\ UNCHANGED <<resultsArray, chunkPc, seq>>
       ELSE IF mode = "sequential"
       THEN /\ cm' = [cm EXCEPT !.pc = "sequential", !.mode = mode, !.n = n]
            /\ seq' = [IdleSeq EXCEPT !.i = 1]
            /\ UNCHANGED <<resultsArray, chunkPc>>
       ELSE /\ cm' = [cm EXCEPT !.pc = "parallel", !.mode = mode, !.n = n]
            /\ resultsArray' = [i \in 1..n |-> EmptyText]
            /\ chunkPc' = [i \in Chunks |-> IF i <= n THEN "started" ELSE "none"]
            /\ UNCHANGED seq
    /\ UNCHANGED <<svcVars, reqVars, splitVars, lastError, cmCalls, completion>>

\* A goroutine of processInParallel builds its prompt and calls GenerateText.
ChunkGenerate(index) ==
    /\ cm.pc = "parallel"
    /\ chunkPc[index] = "started"
    /\ chunkPc' = [chunkPc EXCEPT ![index] = "calling"]
    /\ cmCalls' = Append(cmCalls, ParallelPrompt(index))
    /\ UNCHANGED <<svcVars, reqVars, splitVars, cm, resultsArray, lastError, seq, completion>>

StoreResultInCompletionOrder(arr, index, entry) ==
    [arr EXCEPT ![Len(completion) + 1] = entry]

\* resultsArray[index] = entry
StoreResult(arr, index, entry) == [arr EXCEPT ![index] = entry]

RecordFirstError(last, e) == IF last = NoErr THEN e ELSE last

\* lastError = e, under errMutex
RecordError(last, e) == e

\* The GenerateText call of a goroutine returns: on an error lastError is
\* overwritten and the placeholder stored at the chunk's index, else the
\* result is stored at the chunk's index; then wg.Done.
ChunkReturn(index, err) ==
    /\ cm.pc = "parallel"
    /\ chunkPc[index] = "calling"
    /\ IF err # NilErr
       THEN /\ lastError' = RecordError(lastError, ChunkErr(index, err))
            /\ resultsArray' = StoreResult(resultsArray, index, Placeholder(index))
       ELSE /\ resultsArray' =
                   StoreResult(resultsArray, index, GenerateTextOf(ParallelPrompt(index)))
            /\ UNCHANGED lastError
    /\ chunkPc' = [chunkPc EXCEPT ![index] = "done"]
    /\ completion' = Append(completion, [chunk |-> index, err |-> err])
    /\ UNCHANGED <<svcVars, reqVars, splitVars, cm, seq, cmCalls>>

ParallelJoinNilError ==
    /\ cm.pc = "parallel"
    /\ \A i \in 1..cm.n : chunkPc[i] = "done"
    /\ cm' = [cm EXCEPT !.pc = "returned", !.text = Join(resultsArray, Separator),
                        !.error = NoErr]
    /\ UNCHANGED <<svcVars, reqVars, splitVars, resultsArray, lastError, chunkPc, seq,
                   cmCalls, completion>>

\* wg.Wait returns once every goroutine is done; processInParallel joins
\* resultsArray and returns it with lastError.
ParallelJoin ==
    /\ cm.pc = "parallel"
    /\ \A i \in 1..cm.n : chunkPc[i] = "done"
    /\ cm' = [cm EXCEPT !.pc = "returned", !.text = Join(resultsArray, Separator),
                        !.error = lastError]
    /\ UNCHANGED <<svcVars, reqVars, splitVars, resultsArray, lastError, chunkPc, seq, cmCalls,
                   completion>>

\* processSequentially builds the prompt of chunk i and calls GenerateText.
SeqGenerate ==
    /\ cm.pc = "sequential"
    /\ ~seq.calling
    /\ seq' = [seq EXCEPT !.calling = TRUE]
    /\ cmCalls' = Append(cmCalls, SequentialPrompt(seq.i, seq.previousOutputSummary))
    /\ UNCHANGED <<svcVars, reqVars, splitVars, cm, resultsArray, lastError, chunkPc, completion>>

SeqReturnContinue(err) ==
    /\ cm.pc = "sequential"
    /\ seq.calling
    /\ LET prompt == cmCalls[Len(cmCalls)]
           entry == IF err # NilErr THEN Placeholder(seq.i) ELSE GenerateTextOf(prompt)
           results == Append(seq.results, entry)
       IN /\ seq' = [seq EXCEPT !.calling = FALSE, !.results = results, !.i = seq.i + 1]
          /\ IF seq.i = cm.n
             THEN cm' = [cm EXCEPT !.pc = "returned", !.text = Join(results, Separator),
                                   !.error = IF err # NilErr THEN ChunkErr(seq.i, err)
                                             ELSE NoErr]
             ELSE UNCHANGED cm
    /\ completion' = Append(completion, [chunk |-> seq.i, err |-> err])
    /\ UNCHANGED <<svcVars, reqVars, splitVars, resultsArray, lastError, chunkPc, cmCalls>>

\* The GenerateText call of processSequentially returns. On an error the
\* placeholder is appended and the joined results are returned with the
\* wrapped error. Otherwise the result is appended, the summary for the next
\* chunk is taken from it, and after the last chunk the joined results are
\* returned with a nil error.
SeqReturn(err) ==
    /\ cm.pc = "sequential"
    /\ seq.calling
    /\ LET prompt == cmCalls[Len(cmCalls)]
           result == GenerateTextOf(prompt)
       IN IF err # NilErr
          THEN LET results == Append(seq.results, Placeholder(seq.i))
               IN /\ seq' = [seq EXCEPT !.calling = FALSE, !.results = results]
                  /\ cm' = [cm EXCEPT !.pc = "returned",
                                      !.text = Join(results, Separator),
                                      !.error = ChunkErr(seq.i, err)]
          ELSE LET results == Append(seq.results, result)
               IN /\ seq' = [seq EXCEPT !.calling = FALSE, !.results = results,
                                        !.previousOutputSummary = summarizeForContext(result),
                                        !.i = seq.i + 1]
                  /\ IF seq.i = cm.n
                     THEN cm' = [cm EXCEPT !.pc = "returned",
                                           !.text = Join(results, Separator)]
                     ELSE UNCHANGED cm
    /\ completion' = Append(completion, [chunk |-> seq.i, err |-> err])
    /\ UNCHANGED <<svcVars, reqVars, splitVars, resultsArray, lastError, chunkPc, cmCalls>>

\* ------------------------------------------------- ContextManager: chunking

\* A text handed to splitIntoChunks is a sequence of bytes: a letter, the
\* sentence terminators, and white space.
Alphabet == {"a", ".", "!", " ", "\n"}

Texts == UNION {[1..n -> Alphabet] : n \in 0..MaxTextLen}

\* NewContextManager: the default maxChunkSize.
DefaultMaxChunkSize == 1000

ChunkingStrategies == {"ChunkByParagraph", "ChunkBySentence", "ChunkByTokenCount"}

\* The values WithMaxChunkSize is given: chunks of at most 1 or 2 tokens.
MaxChunkSizes == {1, 2}

\* NewContextManager: the default chunkOverlap.
DefaultChunkOverlap == 100

\* The values WithChunkOverlap is given: no overlap, or an overlap of 1 token.
ChunkOverlaps == {0, 1}

\* unicode.IsSpace, and the class \s of the sentence regexp.
IsSpace(c) == c \in {" ", "\n", "\t", "\r"}

\* The class [.!?] of the sentence regexp.
IsTerminator(c) == c \in {".", "!", "?"}

\* The token estimate ContextManager takes of a text for a model name: one
\* token per three bytes.
estimateTokensForModel(text, modelName) == Len(text) \div 3

RECURSIVE TrimLeft(_)
TrimLeft(s) == IF s # <<>> /\ IsSpace(Head(s)) THEN TrimLeft(Tail(s)) ELSE s

RECURSIVE TrimRight(_)
TrimRight(s) ==
    IF s # <<>> /\ IsSpace(s[Len(s)]) THEN TrimRight(SubSeq(s, 1, Len(s) - 1)) ELSE s

\* strings.TrimSpace
TrimSpace(s) == TrimRight(TrimLeft(s))

\* strings.Index(s, substr): the 0-based index of the first occurrence of
\* substr in s, or -1.
Index(s, substr) ==
    LET at == {i \in 0..(Len(s) - Len(substr)) :
                   SubSeq(s, i + 1, i + Len(substr)) = substr}
    IN IF at = {} THEN -1 ELSE CHOOSE i \in at : \A j \in at : i <= j

\* strings.Split(s, sep), for a non-empty sep.
RECURSIVE StringsSplit(_, _)
StringsSplit(s, sep) ==
    LET i == Index(s, sep)
    IN IF i = -1 THEN <<s>>
       ELSE <<SubSeq(s, 1, i)>> \o StringsSplit(SubSeq(s, i + Len(sep) + 1, Len(s)), sep)

\* The end (0-based, exclusive) of the run of white space that starts at
\* 0-based index i of s.
RECURSIVE SpaceRunEnd(_, _)
SpaceRunEnd(s, i) ==
    IF i < Len(s) /\ IsSpace(s[i + 1]) THEN SpaceRunEnd(s, i + 1) ELSE i

\* regexp.MustCompile(`[.!?]\s+`).Split(s, -1): the pieces of s between the
\* leftmost, longest matches of a terminator followed by white space; a
\* text without a match is its own single piece.
RECURSIVE SentenceSplit(_)
SentenceSplit(s) ==
    LET at == {i \in 0..(Len(s) - 2) : IsTerminator(s[i + 1]) /\ IsSpace(s[i + 2])}
    IN IF at = {} THEN <<s>>
       ELSE LET i == CHOOSE k \in at : \A j \in at : k <= j
            IN <<SubSeq(s, 1, i)>>
                   \o SentenceSplit(SubSeq(s, SpaceRunEnd(s, i + 1) + 1, Len(s)))

\* "Add back punctuation": the byte of text that follows the first
\* occurrence of trimmed is appended to trimmed when it is a terminator.
AddBackPunctuation(text, trimmed) ==
    IF Len(trimmed) > 0 /\ Len(text) > Len(trimmed)
    THEN LET originalIndex == Index(text, trimmed)
         IN IF originalIndex # -1 /\ originalIndex + Len(trimmed) < Len(text)
            THEN LET punctuation == text[originalIndex + Len(trimmed) + 1]
                 IN IF IsTerminator(punctuation)
                    THEN Append(trimmed, punctuation)
                    ELSE trimmed
            ELSE trimmed
    ELSE trimmed

\* The loop over the pieces of a sentence split: empty pieces are dropped,
\* the others trimmed and given their punctuation.
RECURSIVE NonEmptySentences(_, _)
NonEmptySentences(text, pieces) ==
    IF pieces = <<>> THEN <<>>
    ELSE LET trimmed == TrimSpace(Head(pieces))
         IN (IF trimmed # <<>> THEN <<AddBackPunctuation(text, trimmed)>> ELSE <<>>)
                \o NonEmptySentences(text, Tail(pieces))

\* The packing loop of groupSentencesIntoChunks (and of the sentence branch
\* of splitByTokenCount, which repeats it): a sentence that would take the
\* current chunk over max closes it; sentences of one chunk are joined by a
\* space.
RECURSIVE PackLoop(_, _, _, _, _, _)
PackLoop(sentences, max, modelName, acc, currentChunk, currentTokens) ==
    IF sentences = <<>>
    THEN IF Len(currentChunk) > 0 THEN Append(acc, currentChunk) ELSE acc
    ELSE LET sentence == Head(sentences)
             sentenceTokens == estimateTokensForModel(sentence, modelName)
             close == currentTokens > 0 /\ currentTokens + sentenceTokens > max
             acc1 == IF close THEN Append(acc, currentChunk) ELSE acc
             chunk1 == IF close THEN <<>> ELSE currentChunk
             tokens1 == IF close THEN 0 ELSE currentTokens
             chunk2 == (IF tokens1 > 0 THEN Append(chunk1, " ") ELSE chunk1) \o sentence
         IN PackLoop(Tail(sentences), max, modelName, acc1, chunk2,
                     tokens1 + sentenceTokens)

groupSentencesIntoChunks(sentences, max, modelName) ==
    IF Len(sentences) = 0 THEN <<>>
    ELSE PackLoop(sentences, max, modelName, <<>>, <<>>, 0)

\* splitByTokenCount: the loop over the paragraphs. A paragraph whose
\* estimate alone exceeds max closes the current chunk and is packed
\* sentence by sentence; a paragraph that would take the current chunk over
\* max closes it and starts the next one; any other paragraph is added to the
\* current chunk, after a blank line when the chunk already counts tokens.
RECURSIVE TokenCountLoop(_, _, _, _, _, _)
TokenCountLoop(paragraphs, max, modelName, acc, currentChunk, currentTokens) ==
    IF paragraphs = <<>>
    THEN IF Len(currentChunk) > 0 THEN Append(acc, currentChunk) ELSE acc
    ELSE LET trimmed == TrimSpace(Head(paragraphs))
             paragraphTokens == estimateTokensForModel(trimmed, modelName)
             rest == Tail(paragraphs)
         IN IF trimmed = <<>>
            THEN TokenCountLoop(rest, max, modelName, acc, currentChunk, currentTokens)
            ELSE IF paragraphTokens > max
            THEN LET flushed == IF Len(currentChunk) > 0 THEN Append(acc, currentChunk)
                                ELSE acc
                     tokens1 == IF Len(currentChunk) > 0 THEN 0 ELSE currentTokens
                     sentences == NonEmptySentences(trimmed, SentenceSplit(trimmed))
                 IN TokenCountLoop(rest, max, modelName,
                                   PackLoop(sentences, max, modelName, flushed, <<>>, 0),
                                   <<>>, tokens1)
            ELSE IF currentTokens + paragraphTokens > max
            THEN TokenCountLoop(rest, max, modelName, Append(acc, currentChunk),
                                trimmed, paragraphTokens)
            ELSE TokenCountLoop(rest, max, modelName, acc,
                                (IF currentTokens > 0 THEN currentChunk \o <<"\n", "\n">>
                                 ELSE currentChunk) \o trimmed,
                                currentTokens + paragraphTokens)

splitByTokenCount(text, max, modelName) ==
    TokenCountLoop(StringsSplit(text, <<"\n", "\n">>), max, modelName, <<>>, <<>>, 0)

\* The ChunkByParagraph case: the non-empty trimmed pieces between blank lines.
RECURSIVE NonEmptyChunks(_)
NonEmptyChunks(pieces) ==
    IF pieces = <<>> THEN <<>>
    ELSE LET trimmed == TrimSpace(Head(pieces))
         IN (IF trimmed # <<>> THEN <<trimmed>> ELSE <<>>) \o NonEmptyChunks(Tail(pieces))

\* NewContextManager: the default model name.
DefaultModelName == "gpt-4"

\* A ChunkingStrategy value that names none of the three strategies.
UnknownStrategy == "Unknown"

\* splitIntoChunks: the switch on cm.strategy; an unknown strategy falls back
\* to ChunkByParagraph.
splitIntoChunks(strat, text, max, modelName) ==
    CASE strat = "ChunkBySentence" ->
             groupSentencesIntoChunks(NonEmptySentences(text, SentenceSplit(text)),
                                      max, modelName)
      [] strat = "ChunkByTokenCount" -> splitByTokenCount(text, max, modelName)
      [] OTHER -> NonEmptyChunks(StringsSplit(text, <<"\n", "\n">>))

\* NewContextManager(strategy, WithMaxChunkSize(size), WithChunkOverlap(overlap)).
NewContextManager(strat, size, overlap) ==
    /\ splitPc = "idle"
    /\ strategy' = strat
    /\ maxChunkSize' = size
    /\ chunkOverlap' = overlap
    /\ UNCHANGED <<processingMode, override>>
    /\ splitPc' = "configured"
    /\ UNCHANGED <<svcVars, reqVars, cm, resultsArray, lastError, chunkPc, seq, cmCalls,
                   completion, largePrompt, chunks, wpVars, lrVars, ovCall>>

\* ProcessLargePrompt, its first step, on any text:
\* chunks := cm.splitIntoChunks(largePrompt).
\* An unknown strategy leaves cm.strategy set to ChunkByParagraph.
SplitLargePrompt ==
    /\ splitPc = "configured"
    /\ \E text \in Texts :
           /\ largePrompt' = text
           /\ chunks' = splitIntoChunks(strategy, text, maxChunkSize, DefaultModelName)
    /\ strategy' = IF strategy \in ChunkingStrategies THEN strategy ELSE "ChunkByParagraph"
    /\ splitPc' = "split"
    /\ UNCHANGED <<svcVars, reqVars, cm, resultsArray, lastError, chunkPc, seq, cmCalls,
                   completion, maxChunkSize, chunkOverlap, processingMode, override,
                   wpVars, lrVars, ovCall>>

\* ---------------------------------- ContextManager: overrides for one call

ProcessingModes == {"ParallelProcessing", "SequentialProcessing"}

\* The texts of the calls with an override: every text of at most two
\* characters.
OverrideTexts == UNION {[1..n -> Alphabet] : n \in 0..2}

\* No call with an override has been made. A call keeps its saved local
\* (originalStrategy or originalMode) and, as history, the strategy and mode
\* of the ContextManager before the call and the ones its ProcessLargePrompt
\* call found.
NoOverride == [kind |-> "none", originalStrategy |-> "none", originalMode |-> "none",
               before |-> <<>>, used |-> <<>>, error |-> "none"]

\* The other variables of the module, which no ContextManager setting or
\* call with an override touches.
overrideFrame ==
    <<svcVars, reqVars, cm, resultsArray, lastError, chunkPc, seq, cmCalls, completion,
      maxChunkSize, chunkOverlap, wpVars, lrVars, ovCall>>

\* ContextManager.SetChunkingStrategy, between calls.
SetChunkingStrategy(strat) ==
    /\ splitPc \in {"configured", "returned"}
    /\ strategy' = strat
    /\ splitPc' = "configured"
    /\ UNCHANGED <<overrideFrame, largePrompt, chunks, processingMode, override>>

\* ContextManager.SetProcessingMode, between calls.
SetProcessingMode(mode) ==
    /\ splitPc \in {"configured", "returned"}
    /\ processingMode' = mode
    /\ splitPc' = "configured"
    /\ UNCHANGED <<overrideFrame, largePrompt, chunks, strategy, override>>

\* ProcessLargePromptWithStrategy up to its call of ProcessLargePrompt:
\* originalStrategy := cm.strategy; cm.strategy = strategy; the restore is
\* deferred.
ProcessLargePromptWithStrategy(strat) ==
    /\ splitPc \in {"configured", "returned"}
    /\ override' = [kind |-> "strategy", originalStrategy |-> strategy,
                    originalMode |-> "none", before |-> <<strategy, processingMode>>,
                    used |-> <<>>, error |-> "none"]
    /\ strategy' = strat
    /\ splitPc' = "overridden"
    /\ largePrompt' = <<>>
    /\ chunks' = <<>>
    /\ UNCHANGED <<overrideFrame, processingMode>>

\* ProcessLargePromptWithMode up to its call of ProcessLargePrompt:
\* originalMode := cm.processingMode; cm.processingMode = mode; the restore
\* is deferred.
ProcessLargePromptWithMode(mode) ==
    /\ splitPc \in {"configured", "returned"}
    /\ override' = [kind |-> "mode", originalStrategy |-> "none",
                    originalMode |-> processingMode,
                    before |-> <<strategy, processingMode>>, used |-> <<>>,
                    error |-> "none"]
    /\ processingMode' = mode
    /\ splitPc' = "overridden"
    /\ largePrompt' = <<>>
    /\ chunks' = <<>>
    /\ UNCHANGED <<overrideFrame, strategy>>

\* The ProcessLargePrompt call inside a call with an override: the error of
\* a nil TextGenerator; else splitIntoChunks, which leaves cm.strategy set to
\* ChunkByParagraph when it found an unknown strategy, then the zero-chunks
\* error or the processing of the chunks, which reads cm.processingMode,
\* writes no field of the ContextManager and ends with or without an error.
OverriddenProcessLargePrompt ==
    /\ splitPc = "overridden"
    /\ \E text \in OverrideTexts, llmIsNil \in BOOLEAN, failed \in BOOLEAN :
           /\ largePrompt' = text
           /\ IF llmIsNil
              THEN /\ override' = [override EXCEPT !.error = "nil TextGenerator",
                                                   !.used = <<strategy, processingMode>>]
                   /\ UNCHANGED <<chunks, strategy>>
              ELSE /\ chunks' = splitIntoChunks(strategy, text, maxChunkSize, DefaultModelName)
                   /\ strategy' = IF strategy \in ChunkingStrategies THEN strategy
                                  ELSE "ChunkByParagraph"
                   /\ override' = [override EXCEPT
                                       !.used = <<strategy, processingMode>>,
                                       !.error = IF chunks' = <<>> THEN "zero chunks"
                                                 ELSE IF failed THEN "chunk failed"
                                                 ELSE "nil"]
    /\ splitPc' = "processed"
    /\ UNCHANGED <<overrideFrame, processingMode>>

OverrideReturnNoRestore ==
    /\ splitPc = "processed"
    /\ splitPc' = "returned"
    /\ UNCHANGED <<overrideFrame, largePrompt, chunks, override, strategy, processingMode>>

\* The return of a call with an override: the deferred function restores
\* cm.strategy or cm.processingMode from the saved local.
OverrideReturn ==
    /\ splitPc = "processed"
    /\ IF override.kind = "strategy"
       THEN /\ strategy' = override.originalStrategy
            /\ UNCHANGED processingMode
       ELSE /\ processingMode' = override.originalMode
            /\ UNCHANGED strategy
    /\ splitPc' = "returned"
    /\ UNCHANGED <<overrideFrame, largePrompt, chunks, override>>

\* ------------------------- ContextManager: calls with an override, at once

\* The goroutines that call ProcessLargePromptWithStrategy or
\* ProcessLargePromptWithMode on one ContextManager, one call each.
OverrideCallers == 1..NumOverrideCallers

\* A caller before its call. A call keeps its kind, the strategy or mode it
\* was given, its saved local (originalStrategy or originalMode) and, as
\* history, the strategy and mode of the ContextManager when it started,
\* whether it started before every other call, and the strategy and mode its
\* ProcessLargePrompt call read.
IdleOverrideCall ==
    [pc |-> "idle", kind |-> "none", requested |-> "none", original |-> "none",
     before |-> <<>>, first |-> FALSE, used |-> <<>>]

\* The variables no call with an override touches. The ContextManager has no
\* mutex: the calls read and write cm.strategy and cm.processingMode as their
\* statements interleave.
concurrentFrame ==
    <<svcVars, reqVars, cm, resultsArray, lastError, chunkPc, seq, cmCalls, completion,
      maxChunkSize, chunkOverlap, largePrompt, chunks, splitPc, override, wpVars,
      lrVars>>

\* originalStrategy := cm.strategy, or originalMode := cm.processingMode.
OverrideSave(c, kind, value) ==
    /\ splitPc = "configured"
    /\ ovCall[c].pc = "idle"
    /\ ovCall' = [ovCall EXCEPT ![c] =
                      [pc |-> "saved", kind |-> kind, requested |-> value,
                       original |-> IF kind = "strategy" THEN strategy
                                    ELSE processingMode,
                       before |-> <<strategy, processingMode>>,
                       first |-> \A d \in OverrideCallers \ {c} :
                                     ovCall[d].pc = "idle",
                       used |-> <<>>]]
    /\ UNCHANGED <<strategy, processingMode, concurrentFrame>>

\* cm.strategy = strategy, or cm.processingMode = mode.
OverrideSet(c) ==
    /\ ovCall[c].pc = "saved"
    /\ IF ovCall[c].kind = "strategy"
       THEN /\ strategy' = ovCall[c].requested
            /\ UNCHANGED processingMode
       ELSE /\ processingMode' = ovCall[c].requested
            /\ UNCHANGED strategy
    /\ ovCall' = [ovCall EXCEPT ![c].pc = "overridden"]
    /\ UNCHANGED concurrentFrame

\* The ProcessLargePrompt call of the caller: splitIntoChunks switches on
\* cm.strategy as it is now, and leaves ChunkByParagraph in it when it is
\* unknown; the processing is chosen by cm.processingMode as it is now.
OverrideProcess(c) ==
    /\ ovCall[c].pc = "overridden"
    /\ ovCall' = [ovCall EXCEPT ![c].pc = "processed",
                                ![c].used = <<strategy, processingMode>>]
    /\ strategy' = IF strategy \in ChunkingStrategies THEN strategy
                   ELSE "ChunkByParagraph"
    /\ UNCHANGED <<processingMode, concurrentFrame>>

\* The deferred function: cm.strategy = originalStrategy, or
\* cm.processingMode = originalMode.
OverrideRestore(c) ==
    /\ ovCall[c].pc = "processed"
    /\ IF ovCall[c].kind = "strategy"
       THEN /\ strategy' = ovCall[c].original
            /\ UNCHANGED processingMode
       ELSE /\ processingMode' = ovCall[c].original
            /\ UNCHANGED strategy
    /\ ovCall' = [ovCall EXCEPT ![c].pc = "returned"]
    /\ UNCHANGED concurrentFrame

\* ------------------------------------------------------- WordPressService

\* The names of the sites a user saves or connects to. A site stands for its
\* URL and username: Connect looks a saved site up by both.
SiteNames == {"blog", "shop"}

NoSite == ""

\* A nil siteChangeCallback, and the callback main.go registers.
NoCallback == "nil"

UpdateWindowTitle == "updateWindowTitle"

\* s.mutex, a sync.Mutex: free, or held by the named operation. Lock blocks
\* while it is held, whoever asks.
Unlocked == "unlocked"

\* NewWordPressService(): no saved site, no current site, no callback.
NewWordPressService ==
    [isConnected |-> FALSE, currentSiteName |-> NoSite, savedSites |-> {},
     siteChangeCallback |-> NoCallback]

\* No call in progress. A call keeps the operation, its position, the locals
\* of Connect, how often it has called s.mutex.Unlock, what it returned and
\* the title its callback computed.
NoWPCall == [op |-> "none", pc |-> "idle", connectionSuccessful |-> FALSE,
             callbackToCall |-> NoCallback, unlocks |-> 0, err |-> "none",
             title |-> "none"]

\* What a Connect call meets: empty input, a request that fails, a status
\* other than 200, or 200.
ConnectOutcomes == {"invalid input", "request failed", "unauthorized", "ok"}

\* An operation that ran to its end: the deferred Unlock has run.
WPReturned(op, err, unlocks) ==
    [NoWPCall EXCEPT !.op = op, !.err = err, !.unlocks = unlocks]

\* An operation that has reached its call of the callback.
WPInCallback(op, unlocks) ==
    [NoWPCall EXCEPT !.op = op, !.pc = "callback", !.unlocks = unlocks,
                     !.connectionSuccessful = (op = "Connect"),
                     !.callbackToCall = IF op = "Connect" THEN wp.siteChangeCallback
                                        ELSE NoCallback]

\* SetSiteChangeCallback(callback).
SetSiteChangeCallback(callback) ==
    /\ wpCall.pc = "idle"
    /\ wpMutex = Unlocked
    /\ wp' = [wp EXCEPT !.siteChangeCallback = callback]
    /\ wpCall' = WPReturned("SetSiteChangeCallback", "nil", 1)
    /\ UNCHANGED <<wpMutex, inferenceVars, lrVars, ovCall>>

\* SaveSite(name, ...): s.mutex.Lock(); defer s.mutex.Unlock(). A site with
\* that name is updated and the call returns; a new site is appended and the
\* callback, when there is one, is called before the function returns, that
\* is before the deferred Unlock.
SaveSite(name) ==
    /\ wpCall.pc = "idle"
    /\ wpMutex = Unlocked
    /\ wp' = [wp EXCEPT !.savedSites = @ \cup {name}, !.currentSiteName = name]
    /\ IF name \notin wp.savedSites /\ wp.siteChangeCallback # NoCallback
       THEN /\ wpMutex' = "SaveSite"
            /\ wpCall' = WPInCallback("SaveSite", 0)
       ELSE /\ wpMutex' = Unlocked
            /\ wpCall' = WPReturned("SaveSite", "nil", 1)
    /\ UNCHANGED <<inferenceVars, lrVars, ovCall>>

\* Connect(siteURL, username, appPassword) with the URL and username of
\* site. Every error return leaves through the deferred function, which
\* unlocks because connectionSuccessful is false. On 200 the fields are set,
\* a saved site with that URL and username becomes the current site and
\* selects the callback; with a callback the mutex is unlocked by hand before
\* the callback is called, without one the deferred function unlocks.
Connect(site, outcome) ==
    /\ wpCall.pc = "idle"
    /\ wpMutex = Unlocked
    /\ IF outcome # "ok"
       THEN /\ wpCall' = WPReturned("Connect", outcome, 1)
            /\ UNCHANGED <<wp, wpMutex>>
       ELSE /\ wp' = [wp EXCEPT !.isConnected = TRUE,
                                !.currentSiteName =
                                    IF site \in wp.savedSites THEN site ELSE @]
            /\ wpMutex' = Unlocked
            /\ IF site \in wp.savedSites /\ wp.siteChangeCallback # NoCallback
               THEN wpCall' = WPInCallback("Connect", 1)
               ELSE wpCall' = [WPReturned("Connect", "nil", 1)
                                   EXCEPT !.connectionSuccessful = TRUE]
    /\ UNCHANGED <<inferenceVars, lrVars, ovCall>>

\* Disconnect(): s.mutex.Lock(); defer s.mutex.Unlock(); the fields are
\* cleared and the callback, when there is one, is called before the
\* function returns.
Disconnect ==
    /\ wpCall.pc = "idle"
    /\ wpMutex = Unlocked
    /\ wp' = [wp EXCEPT !.isConnected = FALSE, !.currentSiteName = NoSite]
    /\ IF wp.siteChangeCallback # NoCallback
       THEN /\ wpMutex' = "Disconnect"
            /\ wpCall' = WPInCallback("Disconnect", 0)
       ELSE /\ wpMutex' = Unlocked
            /\ wpCall' = WPReturned("Disconnect", "nil", 1)
    /\ UNCHANGED <<inferenceVars, lrVars, ovCall>>

\* updateWindowTitle, its first call: wpService.IsConnected(), which locks
\* s.mutex, reads isConnected and unlocks. It runs on the goroutine of the
\* operation that called the callback and waits as long as the mutex is held.
CallbackIsConnected ==
    /\ wpCall.pc = "callback"
    /\ wpMutex = Unlocked
    /\ wpCall' = IF wp.isConnected
                 THEN [wpCall EXCEPT !.pc = "callbackSiteName"]
                 ELSE [wpCall EXCEPT !.pc = "callbackDone", !.title = "engine"]
    /\ UNCHANGED <<wp, wpMutex, inferenceVars, lrVars, ovCall>>

\* updateWindowTitle, connected: wpService.GetCurrentSiteName(), which locks
\* s.mutex as well, then w.SetTitle.
CallbackGetCurrentSiteName ==
    /\ wpCall.pc = "callbackSiteName"
    /\ wpMutex = Unlocked
    /\ wpCall' = [wpCall EXCEPT !.pc = "callbackDone",
                                !.title = IF wp.currentSiteName # NoSite
                                          THEN wp.currentSiteName ELSE "Connected"]
    /\ UNCHANGED <<wp, wpMutex, inferenceVars, lrVars, ovCall>>

\* The callback has returned and the operation returns: the deferred Unlock
\* of SaveSite and Disconnect runs; the deferred function of Connect finds
\* connectionSuccessful set and a callback, and does not unlock.
CallbackReturn ==
    /\ wpCall.pc = "callbackDone"
    /\ IF wpCall.connectionSuccessful /\ wpCall.callbackToCall # NoCallback
       THEN wpCall' = [wpCall EXCEPT !.pc = "idle", !.err = "nil"]
       ELSE wpCall' = [wpCall EXCEPT !.pc = "idle", !.err = "nil", !.unlocks = @ + 1]
    /\ wpMutex' = IF wpCall.op = "Connect" THEN wpMutex ELSE Unlocked
    /\ UNCHANGED <<wp, inferenceVars, lrVars, ovCall>>

\* --------------------------------------------------------------- LogRelay

\* The io.Writer values: none, the relay, and "stderr", the output of the
\* standard logger before any relay started.
NilWriter == "nil"

Relay == "relay"

\* A free sync.Mutex; a held one is named by the goroutine that holds it.
NoHolder == 0

\* The goroutines that call Start, Stop and log.Println.
LogGoroutines == 1..NumLogGoroutines

\* const maxLogLinesForDialog = 20.
maxLogLinesForDialog == 20

\* NewLogRelay(uiUpdateCallback): an open, empty channel, an empty buffer,
\* not active. logBuffer is kept by its length and the channel by the number
\* of messages it holds. A panic ends the program: no step follows it. The
\* standard logger of package log (variable logger) has an output and a
\* mutex, which it holds while it reads, sets or writes to its output.
NewLogRelay ==
    [active |-> FALSE, originalLogOutput |-> NilWriter, mu |-> NoHolder,
     logMessageChannel |-> [closed |-> FALSE, len |-> 0], logBuffer |-> 0,
     wg |-> 0, processing |-> 0]

\* A goroutine outside every call, with the locals of Write.
IdleLogGoroutine ==
    [op |-> "none", pc |-> "idle", originalOutput |-> NilWriter, isActive |-> FALSE]

\* Start, to the check of lr.active under lr.mu: an active relay is left
\* alone and the call logs that; else the call goes on holding lr.mu.
StartLock(g) ==
    /\ lrPanic = "none"
    /\ lrG[g].pc = "idle"
    /\ lr.mu = NoHolder
    /\ IF lr.active
       THEN /\ lrG' = [lrG EXCEPT ![g] = [@ EXCEPT !.op = "Start", !.pc = "log"]]
            /\ UNCHANGED lr
       ELSE /\ lrG' = [lrG EXCEPT ![g] = [@ EXCEPT !.op = "Start", !.pc = "setOutput"]]
            /\ lr' = [lr EXCEPT !.mu = g]
    /\ UNCHANGED <<logger, lrPanic, inferenceVars, wpVars, ovCall>>

\* Start, holding lr.mu: lr.originalLogOutput = log.Writer();
\* log.SetOutput(lr); lr.active = true; the buffer is cleared; lr.mu.Unlock().
StartSetOutput(g) ==
    /\ lrPanic = "none"
    /\ lrG[g].pc = "setOutput"
    /\ lrG[g].op = "Start"
    /\ logger.mu = NoHolder
    /\ lr' = [lr EXCEPT !.originalLogOutput = logger.out, !.active = TRUE,
                        !.logBuffer = 0, !.mu = NoHolder]
    /\ logger' = [logger EXCEPT !.out = Relay]
    /\ lrG' = [lrG EXCEPT ![g] = [@ EXCEPT !.pc = "go"]]
    /\ UNCHANGED <<lrPanic, inferenceVars, wpVars, ovCall>>

\* Start: lr.wg.Add(1); go lr.processLogMessages(); then log.Println.
StartGo(g) ==
    /\ lrPanic = "none"
    /\ lrG[g].pc = "go"
    /\ lr' = [lr EXCEPT !.wg = @ + 1, !.processing = @ + 1]
    /\ lrG' = [lrG EXCEPT ![g] = [@ EXCEPT !.pc = "log"]]
    /\ UNCHANGED <<logger, lrPanic, inferenceVars, wpVars, ovCall>>

\* A goroutine of the program calls log.Println.
Println(g) ==
    /\ lrPanic = "none"
    /\ lrG[g].pc = "idle"
    /\ lrG' = [lrG EXCEPT ![g] = [@ EXCEPT !.op = "Println", !.pc = "log"]]
    /\ UNCHANGED <<lr, logger, lrPanic, inferenceVars, wpVars, ovCall>>

\* log.Println, of Start or of the program: the logger takes its mutex and
\* writes to its output; the relay's Write runs with that mutex held.
LogOutput(g) ==
    /\ lrPanic = "none"
    /\ lrG[g].pc = "log"
    /\ logger.mu = NoHolder
    /\ IF logger.out = Relay
       THEN /\ logger' = [logger EXCEPT !.mu = g]
            /\ lrG' = [lrG EXCEPT ![g] = [@ EXCEPT !.pc = "write"]]
       ELSE /\ lrG' = [lrG EXCEPT ![g] = IdleLogGoroutine]
            /\ UNCHANGED logger
    /\ UNCHANGED <<lr, lrPanic, inferenceVars, wpVars, ovCall>>

\* Write: under lr.mu, originalOutput := lr.originalLogOutput and
\* isActive := lr.active.
WriteRead(g) ==
    /\ lrPanic = "none"
    /\ lrG[g].pc = "write"
    /\ lr.mu = NoHolder
    /\ lrG' = [lrG EXCEPT ![g] = [@ EXCEPT !.pc = "send",
                                           !.originalOutput = lr.originalLogOutput,
                                           !.isActive = lr.active]]
    /\ UNCHANGED <<lr, logger, lrPanic, inferenceVars, wpVars, ovCall>>

\* Write: the message goes to originalOutput and, if isActive, the select
\* sends it on the channel when there is room and drops it when there is
\* none; a send on a closed channel panics. The logger then unlocks.
WriteSend(g) ==
    /\ lrPanic = "none"
    /\ lrG[g].pc = "send"
    /\ IF lrG[g].isActive /\ lr.logMessageChannel.closed
       THEN /\ lrPanic' = "send on closed channel"
            /\ UNCHANGED <<lr, logger, lrG>>
       ELSE /\ lr' = IF lrG[g].isActive /\ lr.logMessageChannel.len < LogChannelCapacity
                     THEN [lr EXCEPT !.logMessageChannel.len = @ + 1]
                     ELSE lr
            /\ logger' = [logger EXCEPT !.mu = NoHolder]
            /\ lrG' = [lrG EXCEPT ![g] = IdleLogGoroutine]
            /\ UNCHANGED lrPanic
    /\ UNCHANGED <<inferenceVars, wpVars, ovCall>>

\* Stop, to the check of lr.active under lr.mu: a relay that is not active is
\* left alone; else lr.active = false and the call goes on holding lr.mu.
StopLock(g) ==
    /\ lrPanic = "none"
    /\ lrG[g].pc = "idle"
    /\ lr.mu = NoHolder
    /\ IF ~lr.active
       THEN /\ lrG' = [lrG EXCEPT ![g] = [IdleLogGoroutine EXCEPT !.op = "Stop"]]
            /\ UNCHANGED lr
       ELSE /\ lrG' = [lrG EXCEPT ![g] = [@ EXCEPT !.op = "Stop", !.pc = "setOutput"]]
            /\ lr' = [lr EXCEPT !.active = FALSE, !.mu = g]
    /\ UNCHANGED <<logger, lrPanic, inferenceVars, wpVars, ovCall>>

\* Stop, holding lr.mu: log.SetOutput(lr.originalLogOutput) and a
\* log.Println to it, both under the logger's mutex; then lr.mu.Unlock().
StopSetOutput(g) ==
    /\ lrPanic = "none"
    /\ lrG[g].pc = "setOutput"
    /\ lrG[g].op = "Stop"
    /\ logger.mu = NoHolder
    /\ logger' = IF lr.originalLogOutput # NilWriter
                 THEN [logger EXCEPT !.out = lr.originalLogOutput]
                 ELSE logger
    /\ lr' = [lr EXCEPT !.mu = NoHolder]
    /\ lrG' = [lrG EXCEPT ![g] = [@ EXCEPT !.pc = "close"]]
    /\ UNCHANGED <<lrPanic, inferenceVars, wpVars, ovCall>>

\* Stop: close(lr.logMessageChannel); closing a closed channel panics.
StopClose(g) ==
    /\ lrPanic = "none"
    /\ lrG[g].pc = "close"
    /\ IF lr.logMessageChannel.closed
       THEN /\ lrPanic' = "close of closed channel"
            /\ UNCHANGED <<lr, lrG>>
       ELSE /\ lr' = [lr EXCEPT !.logMessageChannel.closed = TRUE]
            /\ lrG' = [lrG EXCEPT ![g] = [@ EXCEPT !.pc = "wait"]]
            /\ UNCHANGED lrPanic
    /\ UNCHANGED <<logger, inferenceVars, wpVars, ovCall>>

\* Stop: lr.wg.Wait() returns when every processing goroutine is done.
StopWait(g) ==
    /\ lrPanic = "none"
    /\ lrG[g].pc = "wait"
    /\ lr.wg = 0
    /\ lrG' = [lrG EXCEPT ![g] = [IdleLogGoroutine EXCEPT !.op = "Stop"]]
    /\ UNCHANGED <<lr, logger, lrPanic, inferenceVars, wpVars, ovCall>>

\* processLogMessages, one turn of `for message := range`: a message is
\* received, also from a closed channel that still holds one, and under
\* lr.mu its line is appended to the buffer, which keeps the last
\* maxLogLinesForDialog lines.
ProcessLogMessage ==
    /\ lrPanic = "none"
    /\ lr.processing > 0
    /\ lr.logMessageChannel.len > 0
    /\ lr.mu = NoHolder
    /\ lr' = [lr EXCEPT !.logMessageChannel.len = @ - 1,
                        !.logBuffer = IF @ >= maxLogLinesForDialog THEN @ ELSE @ + 1]
    /\ UNCHANGED <<logger, lrG, lrPanic, inferenceVars, wpVars, ovCall>>

\* processLogMessages: the channel is closed and empty, the loop ends and
\* the deferred lr.wg.Done() runs.
ProcessLogMessagesExit ==
    /\ lrPanic = "none"
    /\ lr.processing > 0
    /\ lr.logMessageChannel.closed
    /\ lr.logMessageChannel.len = 0
    /\ lr' = [lr EXCEPT !.processing = @ - 1, !.wg = @ - 1]
    /\ UNCHANGED <<logger, lrG, lrPanic, inferenceVars, wpVars, ovCall>>

\* ---------------------------------------------------------- specifications

\* NewInferenceService(); no request started; no ProcessLargePrompt call.
Init ==
    /\ isRunning = FALSE
    /\ proxyLLM = Nil
    /\ baseLLM = Nil
    /\ moa = Nil
    /\ delegator = Nil
    /\ proxyModel = DefaultProxyModel
    /\ baseModel = DefaultBaseModel
    /\ backends = <<>>
    /\ moas = <<>>
    /\ delegators = <<>>
    /\ retired = {}
    /\ rebindReturn = "none"
    /\ rebindNoOp = "none"
    /\ mutex = Nil
    /\ req = [r \in Requests |-> IdleReq]
    /\ calls = [r \in Requests |-> <<>>]
    /\ captured = [r \in Requests |-> NoCapture]
    /\ cm = IdleCM
    /\ resultsArray = <<>>
    /\ lastError = NoErr
    /\ chunkPc = [i \in Chunks |-> "none"]
    /\ seq = IdleSeq
    /\ cmCalls = <<>>
    /\ completion = <<>>
    /\ strategy = "ChunkByParagraph"
    /\ maxChunkSize = DefaultMaxChunkSize
    /\ chunkOverlap = DefaultChunkOverlap
    /\ processingMode = "ParallelProcessing"
    /\ override = NoOverride
    /\ largePrompt = <<>>
    /\ chunks = <<>>
    /\ splitPc = "idle"
    /\ wp = NewWordPressService
    /\ wpMutex = Unlocked
    /\ wpCall = NoWPCall
    /\ lr = NewLogRelay
    /\ logger = [out |-> "stderr", mu |-> NoHolder]
    /\ lrG = [g \in LogGoroutines |-> IdleLogGoroutine]
    /\ lrPanic = "none"
    /\ ovCall = [c \in OverrideCallers |-> IdleOverrideCall]

\* The service, its lifecycle and rebinds, and concurrent GenerateText
\* requests. The routing of a request reads the length of its prompt and
\* whether a call failed, so one prompt on each side of the proxy limit and
\* one kind of error cover the paths of the code.
RebindPromptLens == {24002, 24003}

RebindOutcomes == {NilErr, "Transient"}

Next ==
    \/ \E p \in LLMOutcomes, b \in LLMOutcomes, m \in MOAOutcomes : Start(p, b, m)
    \/ Stop
    \/ \E model \in ModelNames, l \in LLMOutcomes, m \in MOAOutcomes :
           SetProxyModel(model, l, m)
    \/ \E model \in ModelNames, l \in LLMOutcomes, m \in MOAOutcomes :
           SetBaseModel(model, l, m)
    \/ \E r \in Requests, p \in RebindPromptLens : GenerateText(r, p)
    \/ \E r \in Requests : Attempt1(r)
    \/ \E r \in Requests, o \in RebindOutcomes, e \in BOOLEAN : Attempt1Return(r, o, e)
    \/ \E r \in Requests, o \in RebindOutcomes, e \in BOOLEAN : FallbackReturn(r, o, e)

Spec == Init /\ [][Next]_vars

\* The service started, stopped and started again, never rebound, with
\* GenerateText requests.
NextRestart ==
    \/ \E p \in LLMOutcomes, b \in LLMOutcomes, m \in MOAOutcomes :
           StartWithin(MaxRestartBackends, p, b, m)
    \/ Stop
    \/ \E r \in Requests, p \in RebindPromptLens : GenerateText(r, p)
    \/ \E r \in Requests : Attempt1(r)
    \/ \E r \in Requests, o \in RebindOutcomes, e \in BOOLEAN : Attempt1Return(r, o, e)
    \/ \E r \in Requests, o \in RebindOutcomes, e \in BOOLEAN : FallbackReturn(r, o, e)

SpecRestart == Init /\ [][NextRestart]_vars

\* The standard route of the delegator: the service is started and stopped
\* but not rebound, and requests meet every prompt length and every kind of
\* backend error.
NextRoute ==
    \/ \E p \in LLMOutcomes, b \in LLMOutcomes, m \in MOAOutcomes : Start(p, b, m)
    \/ Stop
    \/ \E r \in Requests, p \in PromptLens : GenerateText(r, p)
    \/ \E r \in Requests : Attempt1(r)
    \/ \E r \in Requests, o \in Outcomes, e \in BOOLEAN : Attempt1Return(r, o, e)
    \/ \E r \in Requests, o \in Outcomes, e \in BOOLEAN : FallbackReturn(r, o, e)

SpecRoute == Init /\ [][NextRoute]_vars

NextCM ==
    \/ \E n \in 0..MaxChunks, mode \in {"parallel", "sequential"} :
           ProcessLargePrompt(n, mode)
    \/ \E i \in Chunks : ChunkGenerate(i)
    \/ \E i \in Chunks, e \in Outcomes : ChunkReturn(i, e)
    \/ ParallelJoin
    \/ SeqGenerate
    \/ \E e \in Outcomes : SeqReturn(e)

SpecCM == Init /\ [][NextCM]_vars


\* The operations of the delegator and the direct MOA entry point: one
\* request (the operations of different requests share no state) of any
\* operation, while the service is started, stopped and rebound. A step reads
\* of a call whether it failed and whether its text is empty, so one kind of
\* error covers the paths of the code.
StrategyRequests == {1}

\* The empty prompt, and one prompt on each side of the proxy limit.
StrategyPromptLens == {0, 22464, 24003}

StrategyOutcomes == {NilErr, "Transient"}

NextStrategy ==
    \/ \E p \in LLMOutcomes, b \in LLMOutcomes, m \in MOAOutcomes : Start(p, b, m)
    \/ Stop
    \/ \E model \in ModelNames, l \in LLMOutcomes, m \in MOAOutcomes :
           SetProxyModel(model, l, m)
    \/ \E model \in ModelNames, l \in LLMOutcomes, m \in MOAOutcomes :
           SetBaseModel(model, l, m)
    \/ \E r \in StrategyRequests, p \in StrategyPromptLens : GenerateText(r, p)
    \/ \E r \in StrategyRequests, p \in StrategyPromptLens : GenerateTextWithMOA(r, p)
    \/ \E r \in StrategyRequests, p \in StrategyPromptLens : GenerateTextWithCoT(r, p)
    \/ \E r \in StrategyRequests, p \in StrategyPromptLens :
           GenerateTextWithReflection(r, p)
    \/ \E r \in StrategyRequests, p \in StrategyPromptLens :
           GenerateStructuredOutput(r, p)
    \/ \E r \in StrategyRequests : MoaGenerate(r)
    \/ \E r \in StrategyRequests, o \in StrategyOutcomes, e \in BOOLEAN :
           MoaReturn(r, o, e)
    \/ \E r \in StrategyRequests : Attempt1(r)
    \/ \E r \in StrategyRequests, o \in StrategyOutcomes, e \in BOOLEAN :
           Attempt1Return(r, o, e)
    \/ \E r \in StrategyRequests, o \in StrategyOutcomes, e \in BOOLEAN :
           FallbackReturn(r, o, e)

SpecStrategy == Init /\ [][NextStrategy]_vars

\* The chunker: a ContextManager is configured and splits one text.
NextSplit ==
    \/ \E strat \in ChunkingStrategies \cup {UnknownStrategy}, size \in MaxChunkSizes,
          overlap \in ChunkOverlaps :
           NewContextManager(strat, size, overlap)
    \/ SplitLargePrompt

SpecSplit == Init /\ [][NextSplit]_vars

\* A ContextManager whose settings are changed and whose calls with an
\* override follow one another.
NextOverride ==
    \/ \E strat \in ChunkingStrategies \cup {UnknownStrategy}, size \in MaxChunkSizes,
          overlap \in ChunkOverlaps :
           NewContextManager(strat, size, overlap)
    \/ \E strat \in ChunkingStrategies \cup {UnknownStrategy} : SetChunkingStrategy(strat)
    \/ \E mode \in ProcessingModes : SetProcessingMode(mode)
    \/ \E strat \in ChunkingStrategies \cup {UnknownStrategy} :
           ProcessLargePromptWithStrategy(strat)
    \/ \E mode \in ProcessingModes : ProcessLargePromptWithMode(mode)
    \/ OverriddenProcessLargePrompt
    \/ OverrideReturn

SpecOverride == Init /\ [][NextOverride]_vars

\* A WordPressService on which sites are saved, connected to and
\* disconnected from, with or without the callback of main.go.
NextWP ==
    \/ \E callback \in {NoCallback, UpdateWindowTitle} : SetSiteChangeCallback(callback)
    \/ \E name \in SiteNames : SaveSite(name)
    \/ \E site \in SiteNames, outcome \in ConnectOutcomes : Connect(site, outcome)
    \/ Disconnect
    \/ CallbackIsConnected
    \/ CallbackGetCurrentSiteName
    \/ CallbackReturn

SpecWP == Init /\ [][NextWP]_vars

\* One LogRelay on which goroutines call Start, Stop and log.Println in any
\* order and at the same time.
NextLR ==
    \/ \E g \in LogGoroutines :
           \/ StartLock(g)
           \/ StartSetOutput(g)
           \/ StartGo(g)
           \/ Println(g)
           \/ LogOutput(g)
           \/ WriteRead(g)
           \/ WriteSend(g)
           \/ StopLock(g)
           \/ StopSetOutput(g)
           \/ StopClose(g)
           \/ StopWait(g)
    \/ ProcessLogMessage
    \/ ProcessLogMessagesExit

SpecLR == Init /\ [][NextLR]_vars

\* A ContextManager with a known strategy on which the callers make their
\* calls with an override at the same time.
NextConcurrent ==
    \/ \E strat \in ChunkingStrategies, size \in MaxChunkSizes, overlap \in ChunkOverlaps :
           NewContextManager(strat, size, overlap)
    \/ \E c \in OverrideCallers, strat \in ChunkingStrategies :
           OverrideSave(c, "strategy", strat)
    \/ \E c \in OverrideCallers, mode \in ProcessingModes : OverrideSave(c, "mode", mode)
    \/ \E c \in OverrideCallers : OverrideSet(c)
    \/ \E c \in OverrideCallers : OverrideProcess(c)
    \/ \E c \in OverrideCallers : OverrideRestore(c)

SpecConcurrent == Init /\ [][NextConcurrent]_vars


\* ------------------------------------------------- claims: standard route

Done(r) == req[r].pc = "done"

\* The pools a request has called, in call order.
Pools(r) == [i \in DOMAIN calls[r] |-> calls[r][i].pool]

Recoverable == {"Transient", "ContextOverflow"}

\* The output budget the routing rule of the specification reserves: 512
\* tokens or the caller's maximum output, whichever is larger.
ReservedOutput(maxOutput) == IF maxOutput > 512 THEN maxOutput ELSE 512

\* C1: on the standard route a second attempt, on the base, is made if and
\* only if the first attempt was on the proxy and failed with a Transient or
\* ContextOverflow error; a first attempt that fails with Auth, Permanent or
\* Cancelled is surfaced after exactly one backend call.
C1_FallbackOnlyOnRecoverable ==
    \A r \in Requests :
        Len(calls[r]) >= 1 /\ calls[r][1].outcome # "pending" =>
            /\ Len(calls[r]) >= 2 <=>
                   (calls[r][1].pool = "proxy" /\ calls[r][1].outcome \in Recoverable)
            /\ calls[r][1].outcome \in ErrorKinds \ Recoverable =>
                   /\ Len(calls[r]) = 1
                   /\ Done(r)
                   /\ req[r].error.wraps = calls[r][1].outcome

\* C2: a request on the standard route makes at most two backend Generate
\* calls, whatever the backends return.
C2_AtMostTwoCalls ==
    \A r \in Requests : Len(calls[r]) <= 2

C2_Witness ==
    \E r \in Requests :
        /\ Done(r)
        /\ Len(calls[r]) = 2
        /\ calls[r][1].outcome \in ErrorKinds
        /\ calls[r][2].outcome \in ErrorKinds

\* C3: when the first attempt, on the proxy, fails with a Transient or
\* ContextOverflow error, the base is called next and nothing else; the base
\* call starts only after the proxy call has returned its failure; and when
\* the base call succeeds the request returns the base backend's text and no
\* error.
C3_FallbackToBaseSucceeds ==
    \A r \in Requests :
        /\ \A i \in DOMAIN calls[r] : i < Len(calls[r]) => calls[r][i].outcome \in ErrorKinds
        /\ Len(calls[r]) >= 1 /\ calls[r][1].pool = "proxy"
               /\ calls[r][1].outcome \in Recoverable =>
                   /\ Pools(r) = <<"proxy", "base">>
                   /\ calls[r][2].backend = delegators[req[r].d].baseLLM
                   /\ Done(r) /\ calls[r][2].outcome = NilErr =>
                          /\ req[r].error = NoErr
                          /\ req[r].text = calls[r][2].response
                          /\ calls[r][2].response
                                 \in {ResponseOf(delegators[req[r].d].baseLLM), NoText}

C3_Witness ==
    \E r \in Requests :
        /\ Done(r)
        /\ Len(calls[r]) = 2
        /\ calls[r][1].pool = "proxy" /\ calls[r][1].outcome = "Transient"
        /\ calls[r][2].pool = "base" /\ calls[r][2].outcome = NilErr
        /\ req[r].text = ResponseOf(captured[r].base)
        /\ req[r].text # NoText

\* C4: the first call of a request goes to the proxy exactly when the token
\* estimate of its prompt is at most the proxy limit minus the reserved
\* output budget; otherwise it goes to the base and the proxy is not called;
\* the delegator never starts chunking.
C4_ProxyIffWithinReservedLimit ==
    \A r \in Requests :
        Len(calls[r]) >= 1 =>
            /\ calls[r][1].pool = "proxy" <=>
                   estimateTokens(req[r].promptLen) <= ProxyTokenLimit - ReservedOutput(0)
            /\ calls[r][1].pool = "base" =>
                   \A i \in DOMAIN calls[r] : calls[r][i].pool = "base"
            /\ cm.pc = "idle"

\* C5: within one request no pool is called twice: a request whose first
\* call is on the base makes no second call, and after a proxy failure the
\* proxy is not called again.
C5_NoPoolReentry ==
    \A r \in Requests :
        /\ \A i, j \in DOMAIN calls[r] :
               i < j => /\ calls[r][i].pool # calls[r][j].pool
                        /\ calls[r][i].backend # calls[r][j].backend
        /\ Len(calls[r]) >= 1 /\ calls[r][1].pool = "base" =>
               /\ Len(calls[r]) = 1
               /\ calls[r][1].outcome \in ErrorKinds =>
                      Done(r) /\ req[r].error.wraps = calls[r][1].outcome

C5_Witness ==
    \E r \in Requests :
        /\ Len(calls[r]) = 2
        /\ calls[r][1].pool = "proxy" /\ calls[r][1].outcome \in ErrorKinds
        /\ calls[r][2].pool = "base"

\* ------------------------------------------------------- claims: rebinds

\* C6: a request that captures its delegator after a SetProxyModel call has
\* replaced the proxy LLM never calls an LLM instance that was bound to the
\* proxy slot before that rebind.
C6_NewRequestsNeverCallReplacedProxy ==
    \A r \in Requests :
        \A i \in DOMAIN calls[r] : calls[r][i].backend \notin captured[r].retired

C6_Witness ==
    \E r \in Requests :
        /\ captured[r].retired # {}
        /\ Len(calls[r]) >= 1
        /\ calls[r][1].pool = "proxy"

\* C7: every call of a request, the first attempt and the fallback, goes to
\* the proxy or base LLM its delegator held when the request captured it,
\* whatever SetProxyModel, SetBaseModel, Start or Stop do meanwhile: the
\* captured delegator still holds that pair, and the service's current
\* proxyLLM and baseLLM are not read for the call.
C7_InFlightKeepsCapturedBackends ==
    \A r \in Requests :
        req[r].d # Nil =>
            /\ delegators[req[r].d].proxyLLM = captured[r].proxy
            /\ delegators[req[r].d].baseLLM = captured[r].base
            /\ \A i \in DOMAIN calls[r] :
                   calls[r][i].backend =
                       IF calls[r][i].pool = "proxy" THEN captured[r].proxy
                                                     ELSE captured[r].base

C7_Witness ==
    \E r \in Requests :
        /\ Len(calls[r]) = 2
        /\ calls[r][1].backend = captured[r].proxy
        /\ calls[r][2].backend = captured[r].base
        /\ calls[r][2].outcome = "pending"
        /\ delegator # Nil
        /\ delegator # req[r].d
        /\ baseLLM # captured[r].base


\* C15: a SetProxyModel or SetBaseModel call that returns an error changes
\* nothing: the bound LLM instances, the model names, the MOA instance, the
\* delegator and every object they refer to are as before the call, and so
\* is every request.
C15_FailedRebindChangesNothing ==
    [][(/\ \E model \in ModelNames, l \in LLMOutcomes, mo \in MOAOutcomes :
               SetProxyModel(model, l, mo) \/ SetBaseModel(model, l, mo)
        /\ rebindReturn' = "error")
       => UNCHANGED <<isRunning, proxyLLM, baseLLM, moa, delegator, proxyModel, baseModel,
                      backends, moas, delegators, retired, reqVars>>]_vars

C15_Witness ==
    /\ rebindReturn = "error"
    /\ isRunning
    /\ delegator # Nil
    /\ moa # Nil
    /\ \E r \in Requests : req[r].pc = "attempt1"

\* A request that is blocked in a call on an LLM or MOA instance.
InCall(r) == req[r].pc \in {"attempt1", "fallback", "moa"}

\* C16: no generation entry point holds s.mutex while a call on an LLM or MOA
\* instance is in progress: whenever a request is blocked in such a call, or
\* has made one, s.mutex is free for Stop, SetProxyModel and SetBaseModel.
C16_NoMutexDuringCalls ==
    \A r \in Requests :
        InCall(r) \/ Len(calls[r]) > 0 \/ Done(r) => mutex = Nil

\* Stop has completed while a request was blocked in a call.
C16_Witness ==
    \E r \in Requests :
        /\ InCall(r)
        /\ calls[r][Len(calls[r])].outcome = "pending"
        /\ ~isRunning
        /\ delegator = Nil
        /\ mutex = Nil

\* ------------------------------------------------ claims: ContextManager

\* The order of severity of error kinds: Auth > Permanent > ContextOverflow >
\* Transient > Cancelled.
Severity(kind) ==
    CASE kind = "Auth" -> 5
      [] kind = "Permanent" -> 4
      [] kind = "ContextOverflow" -> 3
      [] kind = "Transient" -> 2
      [] kind = "Cancelled" -> 1
      [] OTHER -> 0

\* How the generator call for chunk c ended, from the order of returns.
Returned(c) == {k \in DOMAIN completion : completion[k].chunk = c}

OutcomeOf(c) == completion[CHOOSE k \in Returned(c) : TRUE].err

Failed == {c \in 1..cm.n : Returned(c) # {} /\ OutcomeOf(c) # NilErr}

\* The entry the output owes chunk c: its result, or its error placeholder.
EntryOf(c) == IF OutcomeOf(c) = NilErr THEN ResultText(c) ELSE Placeholder(c)

ParallelReturned == cm.pc = "returned" /\ cm.mode = "parallel" /\ cm.n > 0

SequentialReturned == cm.pc = "returned" /\ cm.mode = "sequential" /\ cm.n > 0

\* Every chunk's prompt was sent to the generator exactly once.
EachChunkCalledOnce ==
    \A c \in 1..cm.n :
        Cardinality({k \in DOMAIN cmCalls : cmCalls[k].chunk = c}) = 1

\* The last chunk, in order of return, whose call failed.
LastFailed ==
    completion[CHOOSE k \in DOMAIN completion :
                   /\ completion[k].err # NilErr
                   /\ \A j \in DOMAIN completion : j > k => completion[j].err = NilErr].chunk

\* C8: in parallel mode, for every order in which the chunk calls return,
\* the output is the join, in chunk-index order, of each chunk's result or
\* error placeholder, and it is produced only after every chunk's call has
\* returned.
C8_ParallelOutputInChunkOrder ==
    ParallelReturned =>
        /\ \A c \in 1..cm.n : chunkPc[c] = "done" /\ Cardinality(Returned(c)) = 1
        /\ cm.text = Join([c \in 1..cm.n |-> EntryOf(c)], Separator)

C8_Witness ==
    /\ ParallelReturned
    /\ cm.n >= 3
    /\ completion[1].chunk = 3
    /\ completion[2].chunk = 1
    /\ OutcomeOf(1) # NilErr
    /\ OutcomeOf(3) = NilErr

ResultsIn(text) == SelectSeq(text, LAMBDA e : e.kind = "result")

\* C10: in sequential mode, once the call for chunk i has failed no call is
\* issued for a later chunk, the error returned is the error of chunk i, and
\* the text returned holds the results of chunks 1..i-1 in order.
C10_SequentialFailFast ==
    cm.mode = "sequential" =>
        /\ \A k \in DOMAIN cmCalls : cmCalls[k].chunk = k
        /\ \A k \in DOMAIN completion :
               completion[k].err # NilErr =>
                   /\ Len(cmCalls) = k
                   /\ Len(completion) = k
                   /\ cm.pc = "returned"
                   /\ cm.error = ChunkErr(k, completion[k].err)
                   /\ ResultsIn(cm.text) = [c \in 1..(k - 1) |-> ResultText(c)]

C10_Witness ==
    /\ SequentialReturned
    /\ cm.n = 3
    /\ cm.error.chunk = 2
    /\ Len(cmCalls) = 2
    /\ ResultsIn(cm.text) = <<ResultText(1)>>

\* C11: in sequential mode, while no call has failed, the calls are issued
\* in chunk order, each one only after the previous one has returned; the
\* prompt of chunk 1 carries no summary and the prompt of chunk k >= 2
\* carries the summary taken from the response to chunk k-1; with n chunks
\* and no failure exactly n calls are made and the text returned is the join
\* of the n responses in order, with no error.
C11_SequentialRollingSummary ==
    cm.mode = "sequential" /\ cm.n > 0 =>
        /\ Len(cmCalls) <= Len(completion) + 1
        /\ Len(cmCalls) <= cm.n
        /\ \A k \in DOMAIN cmCalls :
               /\ cmCalls[k].chunk = k
               /\ cmCalls[k].summaryOf = (IF k = 1 THEN 0
                                          ELSE summarizeForContext(ResultText(k - 1)))
               /\ \A j \in 1..(k - 1) : completion[j] = [chunk |-> j, err |-> NilErr]
        /\ cm.pc = "returned" /\ Failed = {} =>
               /\ Len(cmCalls) = cm.n
               /\ cm.text = Join([c \in 1..cm.n |-> ResultText(c)], Separator)
               /\ cm.error = NoErr

C11_Witness ==
    /\ SequentialReturned
    /\ cm.n = 3
    /\ Failed = {}
    /\ Len(cmCalls) = 3
    /\ cmCalls[3].summaryOf = 2


\* The orders in which the calls of n chunks can return.
ReturnOrders(n) == {f \in [1..n -> 1..n] : \A i, j \in 1..n : f[i] = f[j] => i = j}

\* The returns of this run, with the same outcome per chunk, in order f.
Reordered(f) == [k \in DOMAIN f |-> completion[f[k]]]

\* The error processInParallel returns when the calls return in the given
\* order: nil when none failed, else the error of the last failure.
ErrorOfOrder(order) ==
    LET failing == {k \in DOMAIN order : order[k].err # NilErr}
    IN IF failing = {} THEN NoErr
       ELSE LET last == CHOOSE k \in failing : \A j \in failing : j <= k
            IN ChunkErr(order[last].chunk, order[last].err)

StripSpace(s) == SelectSeq(s, LAMBDA c : ~IsSpace(c))

RECURSIVE Concat(_)
Concat(ss) == IF ss = <<>> THEN <<>> ELSE Head(ss) \o Concat(Tail(ss))

\* C12: every chunk the ChunkByTokenCount strategy returns has a token
\* estimate of at most maxChunkSize.
C12_TokenCountChunksWithinMax ==
    splitPc = "split" /\ strategy = "ChunkByTokenCount" =>
        \A i \in DOMAIN chunks :
            estimateTokensForModel(chunks[i], DefaultModelName) <= maxChunkSize

\* C13: for each of the three strategies the chunks, concatenated in order,
\* are the text that was split, up to white space: nothing is lost, added,
\* changed or reordered.
C13_SplitIsLossFree ==
    splitPc = "split" /\ strategy \in ChunkingStrategies =>
        StripSpace(Concat(chunks)) = StripSpace(largePrompt)


\* --------------------------------------------- claims: delegator operations

DelegatorOps == {"Simple", "CoT", "Reflection", "Structured"}

\* C14: what a delegator operation returns is either a non-empty text and no
\* error, or the empty text and an error.
C14_TextXorError ==
    \A r \in Requests :
        Done(r) /\ req[r].op \in DelegatorOps =>
            \/ req[r].text # NoText /\ req[r].error = NoErr
            \/ req[r].text = NoText /\ req[r].error # NoErr

MoaFirstOps == {"CoT", "Reflection", "Structured"}

\* The calls of request r in generation step k on the given pools.
StepCalls(r, k, pools) ==
    {i \in DOMAIN calls[r] : calls[r][i].step = k /\ calls[r][i].pool \in pools}

\* Generation step k of request r is over.
StepOver(r, k) == Done(r) \/ req[r].step > k

\* Step k is the step whose result the operation returns.
LastStep(r, k) == k = (IF req[r].op = "Reflection" THEN 2 ELSE 1)

\* C18: in every step of GenerateWithCoT, GenerateWithReflection and
\* GenerateStructuredOutput, a configured MOA instance is called first and
\* once; the standard proxy/base route is called in that step if and only if
\* no MOA instance is configured or the MOA call failed; the output of a
\* successful MOA call is the result of the step; and a failed MOA call
\* followed by a successful standard route gives a successful result.
C18_MoaFirstThenStandard ==
    \A r \in Requests :
        req[r].op \in MoaFirstOps =>
            \A k \in {1, 2} :
                LET viaMoa == StepCalls(r, k, {"moa"})
                    standard == StepCalls(r, k, {"proxy", "base"})
                    moaFailed == \E j \in viaMoa : calls[r][j].outcome \in ErrorKinds
                    moaSucceeded == \E j \in viaMoa : calls[r][j].outcome = NilErr
                IN /\ captured[r].moa = Nil => viaMoa = {}
                   /\ captured[r].moa # Nil /\ viaMoa \cup standard # {} =>
                          /\ Cardinality(viaMoa) = 1
                          /\ \A j \in viaMoa : calls[r][j].backend = captured[r].moa
                          /\ \A i \in standard, j \in viaMoa : j < i
                   /\ standard # {} => captured[r].moa = Nil \/ moaFailed
                   /\ moaFailed /\ StepOver(r, k) => standard # {}
                   /\ moaSucceeded /\ LastStep(r, k) /\ Done(r) =>
                          /\ req[r].error = NoErr
                          /\ \E j \in viaMoa : req[r].text = calls[r][j].response
                   /\ moaFailed /\ LastStep(r, k) /\ Done(r)
                          /\ calls[r][Len(calls[r])].outcome = NilErr =>
                              /\ req[r].error = NoErr
                              /\ req[r].text = calls[r][Len(calls[r])].response

\* The last call of request r in generation step k, 0 when the step has none.
LastCallOf(r, k) ==
    LET made == StepCalls(r, k, {"moa", "proxy", "base"})
    IN IF made = {} THEN 0 ELSE CHOOSE i \in made : \A j \in made : j <= i

\* C19: GenerateWithReflection runs two generation steps in order. A call of
\* the second step is made only after every call of the first step has
\* returned and the first step ended without error; the reflection prompt
\* embeds the original prompt and the response of the first step; each step
\* calls the configured MOA instance first and chooses the first LLM of its
\* standard route from the prompt of that step; and a first step that ends in
\* failure ends the operation with the error and without a call of the
\* second step.
C19_ReflectionTwoStepsInOrder ==
    \A r \in Requests :
        req[r].op = "Reflection" =>
            LET first == LastCallOf(r, 1)
                second == StepCalls(r, 2, {"moa", "proxy", "base"})
                d == delegators[req[r].d]
            IN /\ \A i, j \in DOMAIN calls[r] : i < j => calls[r][i].step <= calls[r][j].step
               /\ \A i \in DOMAIN calls[r] : calls[r][i].step \in {1, 2}
               /\ req[r].step = 2 \/ second # {} =>
                      /\ first # 0
                      /\ \A i \in StepCalls(r, 1, {"moa", "proxy", "base"}) :
                             calls[r][i].outcome # "pending"
                      /\ calls[r][first].outcome = NilErr
                      /\ req[r].initialResponse = calls[r][first].response
               /\ second # {} =>
                      /\ req[r].reflectionPrompt =
                             <<req[r].promptLen, calls[r][first].response>>
                      /\ req[r].stepPromptLen >= req[r].promptLen
               /\ \A k \in {1, 2} :
                      LET made == StepCalls(r, k, {"moa", "proxy", "base"})
                          standard == StepCalls(r, k, {"proxy", "base"})
                          len == IF k = 1 THEN req[r].promptLen ELSE req[r].stepPromptLen
                      IN /\ made # {} /\ captured[r].moa # Nil =>
                                \E i \in made : /\ calls[r][i].pool = "moa"
                                                /\ \A j \in made : i <= j
                         /\ \A i \in standard :
                                (\A j \in standard : i <= j) =>
                                    calls[r][i].pool = InitialTarget(d, len).pool
               /\ Done(r) /\ first # 0 /\ calls[r][first].outcome \in ErrorKinds =>
                      /\ second = {}
                      /\ req[r].error # NoErr
                      /\ req[r].text = NoText
               /\ Done(r) /\ req[r].error = NoErr => second # {}

\* A reflection request that took both steps with an MOA instance configured
\* and returned the response of the second step.
C19_Witness ==
    \E r \in Requests :
        /\ req[r].op = "Reflection"
        /\ Done(r)
        /\ req[r].error = NoErr
        /\ captured[r].moa # Nil
        /\ req[r].initialResponse # NoText
        /\ StepCalls(r, 1, {"proxy", "base"}) # {}
        /\ StepCalls(r, 2, {"moa"}) # {}
        /\ req[r].text = calls[r][LastCallOf(r, 2)].response
        /\ req[r].text # NoText

\* A step of SetProxyModel or SetBaseModel that rebinds a pool to a new model.
SuccessfulRebind ==
    /\ \E model \in ModelNames, l \in LLMOutcomes, mo \in MOAOutcomes :
           SetProxyModel(model, l, mo) \/ SetBaseModel(model, l, mo)
    /\ proxyModel' # proxyModel \/ baseModel' # baseModel

\* The MOA instance m is configured with the models the service is bound to.
ReflectsModels(m, proxy, base) == m.agents = <<proxy, base>>

\* C20: the MOA configuration is copy-on-write across rebinds. A successful
\* SetProxyModel or SetBaseModel leaves every existing MOA instance and
\* delegator as it was, installs a new delegator, installs a new MOA instance
\* that reflects the models the service is now bound to, and leaves the
\* service with an MOA instance if it had one before; and every MOA call of a
\* request is made on the MOA instance the request captured, whose
\* configuration is still the one it had when it was captured.
C20_MoaCopyOnWrite ==
    /\ [](\A r \in Requests :
              /\ \A i \in DOMAIN calls[r] :
                     calls[r][i].pool = "moa" => calls[r][i].backend = captured[r].moa
              /\ captured[r].moa # Nil => moas[captured[r].moa] = captured[r].moaCfg[1])
    /\ [][SuccessfulRebind =>
              /\ \A i \in DOMAIN moas : i \in DOMAIN moas' /\ moas'[i] = moas[i]
              /\ \A i \in DOMAIN delegators :
                     i \in DOMAIN delegators' /\ delegators'[i] = delegators[i]
              /\ delegator' # Nil => /\ delegator' \notin DOMAIN delegators
                                     /\ delegators'[delegator'].moa = moa'
              /\ moa' # Nil => /\ moa' \notin DOMAIN moas
                               /\ ReflectsModels(moas'[moa'], proxyModel', baseModel')
              /\ moa # Nil => moa' # Nil]_vars

\* The proxy slot and the base slot of the delegator that request r captured
\* hold the same backend: one LLM instance, or two bound to one model name.
SameBackendInBothSlots(r) ==
    /\ captured[r].proxy # Nil
    /\ captured[r].base # Nil
    /\ \/ captured[r].proxy = captured[r].base
       \/ captured[r].models[1] = captured[r].models[2]

\* C21: a request of the standard route whose delegator holds the same
\* backend in the proxy slot and in the base slot makes at most one Generate
\* call, and exactly one when it has returned: after a failed first attempt
\* there is no fallback call.
C21_NoFallbackOnSameBackend ==
    \A r \in Requests :
        req[r].op = "Simple" /\ SameBackendInBothSlots(r) =>
            /\ Len(calls[r]) <= 1
            /\ Done(r) => Len(calls[r]) = 1

\* C22: a request with an empty prompt, through any generation entry point,
\* makes no call on the proxy, on the base or on an MOA instance, and returns
\* "" with an error; on a running service the error is of kind Permanent.
C22_EmptyPromptMakesNoCall ==
    \A r \in Requests :
        req[r].op # "none" /\ req[r].promptLen = 0 =>
            /\ calls[r] = <<>>
            /\ Done(r) => /\ req[r].text = NoText
                          /\ req[r].error # NoErr
                          /\ captured[r] # NoCapture => req[r].error.wraps = "Permanent"

\* C23: when the deadline of a request expires, or its caller cancels, while
\* the first attempt of the standard route is in flight (the attempt ends
\* with a Cancelled error), no fallback call follows and the request returns
\* "" and an error of kind Cancelled.
C23_NoFallbackAfterDeadline ==
    \A r \in Requests :
        req[r].op = "Simple" =>
            \A i \in DOMAIN calls[r] :
                i = 1 /\ calls[r][i].outcome = "Cancelled" =>
                    /\ Len(calls[r]) = 1
                    /\ Done(r)
                    /\ req[r].text = NoText
                    /\ req[r].error.wraps = "Cancelled"
                    /\ req[r].error.mentions = <<"Cancelled">>

\* The order of the error kinds, worst first:
\* Auth > Permanent > ContextOverflow > Transient > Cancelled.
KindOrder == <<"Auth", "Permanent", "ContextOverflow", "Transient", "Cancelled">>

RankOf(kind) == CHOOSE i \in DOMAIN KindOrder : KindOrder[i] = kind

\* The worse of two error kinds.
WorseKind(a, b) == IF RankOf(a) <= RankOf(b) THEN a ELSE b

\* C24: when the attempt on the proxy and the fallback attempt on the base
\* both fail, the request returns "" and one error that reports both
\* attempts, in order, and whose kind is the worse of the kinds of the two
\* attempts.
C24_CompositeErrorIsWorseKind ==
    \A r \in Requests :
        /\ req[r].op = "Simple"
        /\ Done(r)
        /\ Len(calls[r]) = 2
        /\ calls[r][1].outcome \in ErrorKinds
        /\ calls[r][2].outcome \in ErrorKinds
        => /\ req[r].text = NoText
           /\ req[r].error.mentions = <<calls[r][1].outcome, calls[r][2].outcome>>
           /\ req[r].error.wraps = WorseKind(calls[r][1].outcome, calls[r][2].outcome)

\* C25: a ProcessLargePrompt call whose prompt splits into no chunk returns
\* at once, in parallel and in sequential mode, with "" and the zero-chunks
\* error, and no goroutine is started and no generator call is made.
C25_ZeroChunksFailFast ==
    cm.pc # "idle" /\ cm.n = 0 =>
        /\ cm.pc = "returned"
        /\ cm.text = <<>>
        /\ cm.error = ZeroChunksErr
        /\ cmCalls = <<>>
        /\ \A i \in Chunks : chunkPc[i] = "none"
        /\ seq = IdleSeq
        /\ resultsArray = <<>>

C25_Witness ==
    /\ cm.pc = "returned"
    /\ cm.n = 0
    /\ cm.mode = "sequential"
    /\ cm.error = ZeroChunksErr

\* The separators of a text.
SeparatorsIn(text) == SelectSeq(text, LAMBDA e : e = Separator)

\* C26: a ProcessLargePrompt call on n >= 1 chunks in which no generator call
\* fails makes exactly n generator calls, one for each chunk, and returns the
\* n responses in chunk order with exactly n-1 separators and no error; for
\* one chunk it makes one call and returns the response to that call alone.
C26_OneCallPerChunk ==
    cm.pc = "returned" /\ cm.n >= 1 /\ Failed = {} =>
        /\ Len(cmCalls) = cm.n
        /\ \A c \in 1..cm.n :
               Cardinality({k \in DOMAIN cmCalls : cmCalls[k].chunk = c}) = 1
        /\ cm.error = NoErr
        /\ Len(SeparatorsIn(cm.text)) = cm.n - 1
        /\ Len(cm.text) = 2 * cm.n - 1
        /\ ResultsIn(cm.text) = [c \in 1..cm.n |-> ResultText(c)]
        /\ cm.n = 1 => cm.text = <<GenerateTextOf(cmCalls[1])>>

\* A single-chunk call that returned the response of its one generator call.
C26_Witness ==
    /\ cm.pc = "returned"
    /\ cm.n = 1
    /\ cm.error = NoErr
    /\ Len(cmCalls) = 1
    /\ cm.text = <<ResultText(1)>>

\* The bytes of one token under the estimate of one token per three bytes.
TokenBytes(tokens) == 3 * tokens

\* The last n tokens of a chunk (the whole chunk when it is shorter).
LastTokens(chunk, n) ==
    IF Len(chunk) <= TokenBytes(n) THEN chunk
    ELSE SubSeq(chunk, Len(chunk) - TokenBytes(n) + 1, Len(chunk))

\* Text s starts with text p.
HasPrefix(s, p) == Len(s) >= Len(p) /\ SubSeq(s, 1, Len(p)) = p

\* C27: with a non-zero chunkOverlap every chunk after the first starts with
\* the last chunkOverlap tokens of the chunk before it, and a chunk that
\* carries an overlap is still of at most maxChunkSize tokens.
C27_ChunksOverlap ==
    splitPc = "split" /\ chunkOverlap > 0 =>
        \A i \in DOMAIN chunks :
            i > 1 =>
                /\ HasPrefix(chunks[i], LastTokens(chunks[i - 1], chunkOverlap))
                /\ estimateTokensForModel(chunks[i], DefaultModelName) <= maxChunkSize

\* A call with an override has returned.
OverrideReturned == splitPc = "returned" /\ override.kind # "none"

\* C28 as claimed: when a ProcessLargePromptWithStrategy or
\* ProcessLargePromptWithMode call has returned, with or without an error,
\* the strategy and the processing mode of the ContextManager are the ones
\* it had before the call.
C28_OverrideRestoresConfiguration ==
    OverrideReturned => <<strategy, processingMode>> = override.before

\* The call ran splitIntoChunks on a ContextManager whose own strategy is
\* none of the three strategies.
NormalizedByCall ==
    /\ override.kind = "mode"
    /\ override.error # "nil TextGenerator"
    /\ override.before[1] \notin ChunkingStrategies

\* C28 as amended: ... the processing mode is the one before the call, and
\* the strategy is the one before the call unless the ContextManager's own
\* strategy is none of the three and the call reached splitIntoChunks, which
\* then left it set to ChunkByParagraph.
C28_OverrideRestoresKnownConfiguration ==
    OverrideReturned =>
        /\ processingMode = override.before[2]
        /\ strategy = IF NormalizedByCall THEN "ChunkByParagraph" ELSE override.before[1]

\* A call that overrode ChunkByParagraph with ChunkBySentence, split a text
\* under the override and returned an error, after which the strategy is
\* ChunkByParagraph again.
C28_Witness ==
    /\ OverrideReturned
    /\ override.kind = "strategy"
    /\ override.before[1] = "ChunkByParagraph"
    /\ override.used[1] = "ChunkBySentence"
    /\ strategy = "ChunkByParagraph"
    /\ override.error = "chunk failed"
    /\ chunks # <<>>

\* C29: a SetProxyModel call with the model name the proxy slot is already
\* bound to returns nil and changes nothing: no LLM instance, MOA instance or
\* delegator is built, and the fields of the service and the requests are as
\* before. A second SetProxyModel(m) after a first one that bound m is such
\* a call.
C29_SetProxyModelSameModelIsNoOp ==
    [][(\E model \in ModelNames, l \in LLMOutcomes, mo \in MOAOutcomes :
            model = proxyModel /\ SetProxyModel(model, l, mo))
       => /\ rebindReturn' = NilErr
          /\ UNCHANGED <<isRunning, proxyLLM, baseLLM, moa, delegator, proxyModel,
                         baseModel, backends, moas, delegators, retired, reqVars>>]_vars

\* A second SetProxyModel(m) has returned after a first one replaced the
\* proxy LLM of the running service: one LLM instance was retired, not two.
C29_Witness ==
    /\ rebindNoOp = "SetProxyModel"
    /\ rebindReturn = NilErr
    /\ isRunning
    /\ proxyLLM # Nil
    /\ Cardinality(retired) = 1
    /\ Len(backends) = 3
    /\ proxyModel = DefaultBaseModel

\* C36: while the service is not running (from the return of Stop to the
\* next successful Start, whatever SetProxyModel and SetBaseModel calls
\* happen in between), a new call of a generation entry point returns at
\* once with an error and no text, and no call of a backend or of the MOA
\* instance is made; a Stop on a service that is not running changes nothing.
C36_StoppedServiceRefusesCalls ==
    [][/\ \A r \in Requests :
              (~isRunning /\ req[r].pc = "idle" /\ req'[r].pc # "idle")
                  => /\ req'[r].pc = "done"
                     /\ req'[r].text = NoText
                     /\ req'[r].error = NotRunningErr
                     /\ calls' = calls
                     /\ UNCHANGED svcVars
       /\ (~isRunning /\ Stop) => UNCHANGED <<svcVars, reqVars>>]_vars

\* A call was refused after Start, Stop and a successful SetProxyModel: the
\* stopped service holds the third LLM instance in its proxy slot.
C36_Witness ==
    /\ ~isRunning
    /\ Len(backends) = 3
    /\ proxyLLM = 3
    /\ baseModel = ""
    /\ rebindReturn = NilErr
    /\ req[1].pc = "done"
    /\ req[1].error = NotRunningErr
    /\ req[1].text = NoText
    /\ calls[1] = <<>>

\* C37: Stop followed by Start restores the model binding. While no
\* SetProxyModel or SetBaseModel call has been made, a running service
\* reports the model names of its first Start, which are those of
\* NewInferenceService and are not empty, and its LLM instances were built
\* for them.
C37_RestartKeepsModelNames ==
    (isRunning /\ rebindReturn = "none") =>
        /\ proxyModel = DefaultProxyModel
        /\ baseModel = DefaultBaseModel
        /\ proxyLLM # Nil => backends[proxyLLM].model = DefaultProxyModel
        /\ baseLLM # Nil => backends[baseLLM].model = DefaultBaseModel

\* ------------------------------------------------ claims: WordPressService

\* The positions of a call inside the site-change callback.
CallbackPositions == {"callback", "callbackSiteName", "callbackDone"}

\* C32: the site-change callback never runs while the operation that fires
\* it (Connect, Disconnect, SaveSite) holds the service mutex, so that the
\* callback of main.go, which calls IsConnected and GetCurrentSiteName, can
\* take the mutex; and a Connect call that has returned has released the
\* mutex exactly once.
C32_CallbackOutsideMutex ==
    /\ wpCall.pc \in CallbackPositions => wpMutex = Unlocked
    /\ (wpCall.op = "Connect" /\ wpCall.pc = "idle") =>
           (wpCall.unlocks = 1 /\ wpMutex = Unlocked)

\* ------------------------------------------------ claims: service lifecycle

\* C33: after any sequence of Start, Stop, SetProxyModel and SetBaseModel
\* calls, whatever their outcomes, a running service has a delegator that
\* holds the service's current proxyLLM, baseLLM and moa, and a service that
\* is not running holds no LLM, no MOA and no delegator.
C33_ServiceStateConsistent ==
    /\ isRunning =>
           /\ delegator # Nil
           /\ delegators[delegator].proxyLLM = proxyLLM
           /\ delegators[delegator].baseLLM = baseLLM
           /\ delegators[delegator].moa = moa
    /\ ~isRunning =>
           (proxyLLM = Nil /\ baseLLM = Nil /\ moa = Nil /\ delegator = Nil)

\* ------------------------------------------------------- claims: LogRelay

\* C34: no Write sends on logMessageChannel after Stop has closed it and no
\* Stop closes it a second time, for every interleaving of log calls with
\* Start and Stop and every sequence of Start and Stop calls.
C34_NoUseOfClosedChannel == lrPanic = "none"

\* ------------------------------------------- claims: concurrent overrides

\* The strategy and mode of the ContextManager before any call started.
ConfiguredBefore ==
    ovCall[CHOOSE c \in OverrideCallers : ovCall[c].first].before

\* The strategy and mode a call is meant to process with: what it was given,
\* and the configured value of the setting it does not override.
OwnConfiguration(c) ==
    IF ovCall[c].kind = "strategy"
    THEN <<ovCall[c].requested, ConfiguredBefore[2]>>
    ELSE <<ConfiguredBefore[1], ovCall[c].requested>>

\* C35: concurrent calls of ProcessLargePromptWithStrategy and
\* ProcessLargePromptWithMode on one ContextManager do not interfere: each
\* call processes with its own strategy and mode, and when all have returned
\* the strategy and mode of the ContextManager are the ones before the calls.
C35_ConcurrentOverridesDoNotInterfere ==
    /\ \A c \in OverrideCallers :
           ovCall[c].pc \in {"processed", "returned"} =>
               ovCall[c].used = OwnConfiguration(c)
    /\ (\A c \in OverrideCallers : ovCall[c].pc = "returned") =>
           <<strategy, processingMode>> = ConfiguredBefore

=============================================================================
